---- MODULE Spec2Model ----
(***************************************************************************)
(* The ATK audio daemon (src/src/atk/daemon.py, src/src/atk/player.py):    *)
(* the session/queue state machine of class Daemon, the transport state of *)
(* class Player, and the named-pipe read and write loops.                  *)
(*                                                                         *)
(* Indices are 0-based as in the source; a Python list l is the sequence   *)
(* s with l[i] = s[i + 1].                                                 *)
(*                                                                         *)
(* A handler is a coroutine that never suspends before it returns (_emit   *)
(* and the nested handlers contain no pending await), so a handler is one  *)
(* atomic step of the control task.  Handlers are written as operators on  *)
(* a record D of the daemon's and the player's fields; an operator yields  *)
(* the SET of records the handler can end in (random.shuffle and           *)
(* random.randint are nondeterministic choices).  D.exc names the          *)
(* exception that is propagating ("" for none), D.out is the sequence of   *)
(* messages handed to _emit, D.ret the value returned.                     *)
(***************************************************************************)
EXTENDS Integers, Sequences, FiniteSets, TLC

(***************************************************************************)
(* Bounds of the model.                                                    *)
(***************************************************************************)
\* longest queue explored: add, play <file> and load are cut off there
MaxQueue == 2
\* frames of every decoded test track
TotalFrames == 1
\* nesting depth at which the interpreter raises RecursionError
RecursionLimit == 4
\* track-end tasks that may be waiting on the event loop at once
MaxPendingEnds == 1
\* responses returned and events emitted in a run of the pipe specification
MaxLines == 3
MaxEvents == 5
\* time arguments and positions in seconds are counted in units of
\* 1/SubFrame of a frame (1/(SubFrame * SAMPLE_RATE) s)
SubFrame == 2
\* daemon processes started in one runtime directory
MaxDaemons == 2

(***************************************************************************)
(* The file system the daemon runs against.                                *)
(***************************************************************************)
\* decodable files
Good == {"a.mp3", "b.mp3"}
\* a path with a recognised extension that does not exist
Missing == {"x.mp3"}
\* an existing file with a recognised extension that the decoder rejects
Corrupt == {"d.mp3"}
\* an existing file whose extension is not recognised
Unsupported == {"n.txt"}
Uris == Good \cup Missing \cup Corrupt \cup Unsupported
\* decodable files of other lengths: a longer one, and one without frames
Long == {"l.mp3"}
Empty == {"e.mp3"}
\* a decodable file whose name starts with the comment character of m3u
Hashed == {"#c.mp3"}
\* _total_frames once uri is decoded into _samples; 0 with no buffer
Frames(uri) ==
    IF uri = "" \/ uri \in Empty THEN 0
    ELSE IF uri \in Long THEN TotalFrames + 2
    ELSE TotalFrames

\* a decodable file whose extension is written in upper case
Upper == {"U.MP3"}
\* Path(uri).suffix
Suffix(uri) ==
    IF uri \in Unsupported THEN ".txt" ELSE IF uri \in Upper THEN ".MP3" ELSE ".mp3"
\* str.lower() on the suffixes of the model
Lower(ext) == IF ext = ".MP3" THEN ".mp3" ELSE ext
SUPPORTED_EXTENSIONS == {".mp3", ".ogg", ".flac", ".wav", ".opus", ".m4a", ".aac"}
is_supported(uri) == Lower(Suffix(uri)) \in SUPPORTED_EXTENSIONS

(***************************************************************************)
(* Python list operations, 0-based.                                        *)
(***************************************************************************)
Max(a, b) == IF a >= b THEN a ELSE b
Min(a, b) == IF a <= b THEN a ELSE b

\* list.pop(i)
RemoveAt(s, i) == [k \in 1..(Len(s) - 1) |-> IF k <= i THEN s[k] ELSE s[k + 1]]
\* list.insert(i, e), 0 <= i
InsertAt(s, i, e) ==
    LET j == Min(i, Len(s))
    IN  [k \in 1..(Len(s) + 1) |->
            IF k <= j THEN s[k] ELSE IF k = j + 1 THEN e ELSE s[k - 1]]
\* list.index(e), -1 standing for ValueError
IndexOf(s, e) ==
    IF \E k \in 1..Len(s) : s[k] = e
    THEN (CHOOSE k \in 1..Len(s) : s[k] = e /\ \A m \in 1..(k - 1) : s[m] # e) - 1
    ELSE -1
\* list.remove(e): the first occurrence, nothing on ValueError (caught)
RemoveValue(s, e) == IF IndexOf(s, e) = -1 THEN s ELSE RemoveAt(s, IndexOf(s, e))
\* l[i] for any integer i: a negative i counts from the end
InRange(s, i) == -Len(s) <= i /\ i < Len(s)
Get(s, i) == IF i >= 0 THEN s[i + 1] ELSE s[Len(s) + i + 1]
\* list(range(n))
Range(n) == [k \in 1..n |-> k - 1]
\* the outcomes of random.shuffle(s)
Shuffled(s) ==
    LET n == Len(s)
        Bij == {p \in [1..n -> 1..n] : \A i, j \in 1..n : p[i] = p[j] => i = j}
    IN  {[k \in 1..n |-> s[p[k]]] : p \in Bij}

(***************************************************************************)
(* Player (src/src/atk/player.py).  D.p_device is "none" when _device is   *)
(* None, "running" while the device pulls from a live _audio_generator,    *)
(* and "done" when that generator has returned.  D.p_samples is the uri    *)
(* whose decoded buffer is held, "" for None.                              *)
(***************************************************************************)
\* device.close() returns once the device thread has left the generator:
\* joined records that this call closed a device that was pulling
Player_stop_device(D) ==
    [D EXCEPT !.p_device = "none", !.joined = @ \/ D.p_device = "running"]

Player_start_device(D) ==
    IF D.p_device # "none" THEN D ELSE [D EXCEPT !.p_device = "running"]

\* FileNotFoundError and ValueError are raised by load itself; a file the
\* decoder rejects raises miniaudio.DecodeError, which is neither.
Player_load(D, uri) ==
    LET D1 == Player_stop_device([D EXCEPT !.p_uri = uri])
    IN  IF uri \in Missing THEN [D1 EXCEPT !.exc = "FileNotFoundError"]
        ELSE IF ~is_supported(uri) THEN [D1 EXCEPT !.exc = "ValueError"]
        ELSE IF uri \in Corrupt THEN [D1 EXCEPT !.exc = "DecodeError"]
        ELSE [D1 EXCEPT !.p_samples = uri, !.p_position = 0]

\* play(start_pos) with start_pos in frames
Player_play(D, start) ==
    IF D.p_samples = "" THEN D
    ELSE Player_start_device(
             [D EXCEPT !.p_position = Max(0, Min(start, Frames(D.p_samples) - 1)),
                       !.p_playing = TRUE, !.p_active = TRUE])

Player_pause(D) == [D EXCEPT !.p_playing = FALSE]

Player_unpause(D) ==
    IF D.p_samples = "" THEN D
    ELSE Player_start_device([D EXCEPT !.p_playing = TRUE, !.p_active = TRUE])

Player_stop(D) ==
    [Player_stop_device([D EXCEPT !.p_playing = FALSE, !.p_active = FALSE])
        EXCEPT !.p_position = 0]

\* seek(position), position already multiplied by SAMPLE_RATE and truncated
Player_seek(D, frame) ==
    IF D.p_samples = "" THEN D
    ELSE [D EXCEPT !.p_position = Max(0, Min(frame, Frames(D.p_samples) - 1))]

Player_set_volume(D, level) == [D EXCEPT !.p_volume = Max(0, Min(100, level))]

\* set_rate(speed), speed in hundredths
Player_set_rate(D, speed) == [D EXCEPT !.p_rate = Max(25, Min(400, speed))]

(***************************************************************************)
(* Messages.  An event is the record json.dumps'ed by _emit; the payload   *)
(* fields that an event does not carry are "", -1 and <<>>.                *)
(***************************************************************************)
Event(name, track, pos, q) ==
    [event |-> name, track |-> track, queue_position |-> pos, queue |-> q]

\* _emit as seen by the handler: the message is handed to the outbound
\* channel; what the channel does with it is put_nowait below
Emit(D, ev) == [D EXCEPT !.out = Append(@, ev)]

\* _queue_data(): the tracks and the current index
QueueUpdated(D) == Event("queue_updated", "", D.queue_pos, D.queue)

Return(D, key, num, str) ==
    [D EXCEPT !.ret = [key |-> key, num |-> num, str |-> str]]

Raise(D, e) == [D EXCEPT !.exc = e]

(***************************************************************************)
(* Queue helpers of Daemon.                                                *)
(***************************************************************************)
Step(ok, D) == [ok |-> ok, d |-> D]

\* AdvanceLinear that fails at the last index whatever the repeat mode
AdvanceLinear_NeverWraps(D) ==
    LET nxt == D.queue_pos + 1
    IN  IF nxt >= Len(D.queue) THEN Step(FALSE, D)
        ELSE Step(TRUE, [D EXCEPT !.queue_pos = nxt])

\* AdvanceLinear wrapping to 0 whatever the repeat mode
AdvanceLinear_AlwaysWraps(D) ==
    LET nxt == D.queue_pos + 1
    IN  Step(TRUE, [D EXCEPT !.queue_pos = IF nxt >= Len(D.queue) THEN 0 ELSE nxt])

AdvanceLinear(D) ==
    LET nxt == D.queue_pos + 1
    IN  IF nxt >= Len(D.queue)
        THEN IF D.repeat = "queue"
             THEN Step(TRUE, [D EXCEPT !.queue_pos = 0])
             ELSE Step(FALSE, D)
        ELSE Step(TRUE, [D EXCEPT !.queue_pos = nxt])

\* Advance that fails when queue_pos is not in shuffle_order
Advance_FailsOnDrift(D) ==
    IF D.queue = <<>> THEN {Step(FALSE, D)}
    ELSE IF D.shuffle
    THEN LET idx == IndexOf(D.shuffle_order, D.queue_pos)
             nxt == idx + 1
         IN  IF idx = -1 THEN {Step(FALSE, D)}
             ELSE IF nxt >= Len(D.shuffle_order)
             THEN IF D.repeat = "queue"
                  THEN {Step(TRUE, [D EXCEPT !.shuffle_order = so,
                                             !.queue_pos = so[1]])
                        : so \in Shuffled(D.shuffle_order)}
                  ELSE {Step(FALSE, D)}
             ELSE {Step(TRUE, [D EXCEPT !.queue_pos = D.shuffle_order[nxt + 1]])}
    ELSE {AdvanceLinear(D)}

Advance(D) ==
    IF D.queue = <<>> THEN {Step(FALSE, D)}
    ELSE IF D.shuffle
    THEN LET idx == IndexOf(D.shuffle_order, D.queue_pos)
             nxt == idx + 1
         IN  IF idx = -1 THEN {AdvanceLinear(D)}
             ELSE IF nxt >= Len(D.shuffle_order)
             THEN IF D.repeat = "queue"
                  THEN {Step(TRUE, [D EXCEPT !.shuffle_order = so,
                                             !.queue_pos = so[1]])
                        : so \in Shuffled(D.shuffle_order)}
                  ELSE {Step(FALSE, D)}
             ELSE {Step(TRUE, [D EXCEPT !.queue_pos = D.shuffle_order[nxt + 1]])}
    ELSE {AdvanceLinear(D)}

\* GoPrevLinear with the test for repeat = "queue" inverted
GoPrevLinear_WrapsOnNone(D) ==
    LET prev == D.queue_pos - 1
    IN  IF prev < 0
        THEN IF D.repeat # "queue"
             THEN Step(TRUE, [D EXCEPT !.queue_pos = Len(D.queue) - 1])
             ELSE Step(FALSE, D)
        ELSE Step(TRUE, [D EXCEPT !.queue_pos = prev])

GoPrevLinear(D) ==
    LET prev == D.queue_pos - 1
    IN  IF prev < 0
        THEN IF D.repeat = "queue"
             THEN Step(TRUE, [D EXCEPT !.queue_pos = Len(D.queue) - 1])
             ELSE Step(FALSE, D)
        ELSE Step(TRUE, [D EXCEPT !.queue_pos = prev])

GoPrevious(D) ==
    IF D.queue = <<>> THEN Step(FALSE, D)
    ELSE IF D.shuffle
    THEN LET idx == IndexOf(D.shuffle_order, D.queue_pos)
             prev == idx - 1
         IN  IF idx = -1 THEN GoPrevLinear(D)
             ELSE IF prev < 0
             THEN IF D.repeat = "queue"
                  THEN Step(TRUE, [D EXCEPT !.queue_pos =
                                       D.shuffle_order[Len(D.shuffle_order)]])
                  ELSE Step(FALSE, D)
             ELSE Step(TRUE, [D EXCEPT !.queue_pos = D.shuffle_order[prev + 1]])
    ELSE GoPrevLinear(D)

\* ShuffleInsert drawing the position from the whole of shuffle_order
ShuffleInsert_Anywhere(D, track_idx) ==
    {[D EXCEPT !.shuffle_order = InsertAt(D.shuffle_order, pos, track_idx)]
        : pos \in 0..Len(D.shuffle_order)}

\* _shuffle_insert: random.randint(cur + 1, len) is any position after cur
ShuffleInsert(D, track_idx) ==
    LET so  == D.shuffle_order
        cur == IndexOf(so, D.queue_pos)
        positions == IF so = <<>> THEN {0}
                     ELSE IF cur = -1 THEN {Len(so)}
                     ELSE (cur + 1)..Len(so)
    IN  {[D EXCEPT !.shuffle_order = InsertAt(so, pos, track_idx)] : pos \in positions}

\* _play_current.  depth counts the nested calls of _play_current that are
\* on the stack; the call that would exceed the interpreter's limit raises
\* RecursionError, which no frame of _play_current catches.
RECURSIVE PlayCurrentAt(_, _)
PlayCurrentAt(D, depth) ==
    IF D.queue = <<>> \/ D.queue_pos >= Len(D.queue) THEN {D}
    ELSE IF depth >= RecursionLimit THEN {Raise(D, "RecursionError")}
    ELSE IF ~InRange(D.queue, D.queue_pos) THEN {Raise(D, "IndexError")}
    ELSE LET uri == Get(D.queue, D.queue_pos)
             L   == Player_load(D, uri)
         IN  IF L.exc = ""
             THEN {Emit(Emit([Player_play(L, 0) EXCEPT !.state = "playing"],
                             Event("track_changed", uri, L.queue_pos, <<>>)),
                        Event("playback_started", uri, -1, <<>>))}
             ELSE IF L.exc \in {"FileNotFoundError", "ValueError"}
             THEN LET E == Emit(Raise(L, ""), Event("error", uri, -1, <<>>))
                  IN  UNION {IF A.ok THEN PlayCurrentAt(A.d, depth + 1) ELSE {A.d}
                             : A \in Advance(E)}
             ELSE {L}

PlayCurrent(D) == PlayCurrentAt(D, 0)

(***************************************************************************)
(* Command handlers of Daemon.  A handler that raised leaves D.exc set and *)
(* everything it had assigned before the raise in place.                   *)
(***************************************************************************)
\* the set of outcomes of F applied after each outcome in S that did not raise
Then(S, F(_)) == UNION {IF d.exc = "" THEN F(d) ELSE {d} : d \in S}

ReturnState(D) == {Return(D, "state", -1, D.state)}
ReturnQueuePosition(D) == {Return(D, "queue_position", D.queue_pos, "")}

\* play {file?}; file = "" when the argument is absent
CmdPlay(D, file) ==
    IF file # ""
    THEN IF ~is_supported(file) THEN {Raise(D, "ValueError")}
         ELSE LET Q   == Append(D.queue, file)
                  D1  == [D EXCEPT !.queue = Q, !.queue_pos = Len(Q) - 1]
                  Ins == IF D1.shuffle THEN ShuffleInsert(D1, Len(Q) - 1) ELSE {D1}
                  Upd(d) == PlayCurrent(Emit(d, QueueUpdated(d)))
              IN  Then(Then(Ins, Upd), ReturnState)
    ELSE IF D.state = "paused"
    THEN ReturnState(Emit([Player_unpause(D) EXCEPT !.state = "playing"],
                          Event("playback_started", "", -1, <<>>)))
    ELSE IF D.state = "stopped" /\ D.queue # <<>>
    THEN Then(PlayCurrent(D), ReturnState)
    ELSE ReturnState(D)

\* CmdPause without the test of the state
CmdPause_WhateverState(D) ==
    ReturnState(Emit([Player_pause(D) EXCEPT !.state = "paused"],
                     Event("playback_paused", "", -1, <<>>)))

CmdPause(D) ==
    IF D.state = "playing"
    THEN ReturnState(Emit([Player_pause(D) EXCEPT !.state = "paused"],
                          Event("playback_paused", "", -1, <<>>)))
    ELSE ReturnState(D)

CmdStop(D) ==
    ReturnState(Emit([Player_stop(D) EXCEPT !.state = "stopped"],
                     Event("playback_stopped", "", -1, <<>>)))

CmdNext(D) ==
    UNION {IF A.ok THEN Then(PlayCurrent(A.d), ReturnQueuePosition)
           ELSE {Return(A.d, "error", -1, "End of queue")}
           : A \in Advance(D)}

CmdPrev(D) ==
    LET A == GoPrevious(D)
    IN  IF A.ok THEN Then(PlayCurrent(A.d), ReturnQueuePosition)
        ELSE {Return(A.d, "error", -1, "Start of queue")}

\* add {uri}; uri = "" when the argument is absent
CmdAdd(D, uri) ==
    IF uri = "" THEN {Raise(D, "ValueError")}
    ELSE IF ~is_supported(uri) THEN {Raise(D, "ValueError")}
    ELSE LET Q   == Append(D.queue, uri)
             D1  == [D EXCEPT !.queue = Q]
             Ins == IF D1.shuffle THEN ShuffleInsert(D1, Len(Q) - 1) ELSE {D1}
         IN  {Return(Emit(d, QueueUpdated(d)), "queue_length", Len(Q), "") : d \in Ins}

\* CmdRemove leaving queue_pos as it is when an earlier track is removed
CmdRemove_KeepsPosition(D, index) ==
    IF index = <<>> THEN {Raise(D, "ValueError")}
    ELSE LET idx == index[1]
         IN  IF idx < 0 \/ idx >= Len(D.queue) THEN {Raise(D, "IndexError")}
             ELSE LET removed == D.queue[idx + 1]
                      D1 == [D EXCEPT !.queue = RemoveAt(D.queue, idx)]
                      Cur == IF idx = D1.queue_pos /\ D1.state = "playing"
                             THEN IF D1.queue_pos < Len(D1.queue)
                                  THEN PlayCurrent(D1)
                                  ELSE {[Player_stop(D1) EXCEPT !.state = "stopped"]}
                             ELSE {D1}
                      Fin(d) == {Return(Emit(d, QueueUpdated(d)), "removed", -1, removed)}
                  IN  Then(Cur, Fin)

\* remove {index}; index = <<>> when the argument is absent, <<i>> otherwise
CmdRemove(D, index) ==
    IF index = <<>> THEN {Raise(D, "ValueError")}
    ELSE LET idx == index[1]
         IN  IF idx < 0 \/ idx >= Len(D.queue) THEN {Raise(D, "IndexError")}
             ELSE LET removed == D.queue[idx + 1]
                      D1 == [D EXCEPT !.queue = RemoveAt(D.queue, idx)]
                      Cur == IF idx < D1.queue_pos
                             THEN {[D1 EXCEPT !.queue_pos = @ - 1]}
                             ELSE IF idx = D1.queue_pos /\ D1.state = "playing"
                             THEN IF D1.queue_pos < Len(D1.queue)
                                  THEN PlayCurrent(D1)
                                  ELSE {[Player_stop(D1) EXCEPT !.state = "stopped"]}
                             ELSE {D1}
                      Renumber(d) ==
                          IF d.shuffle /\ d.shuffle_order # <<>>
                          THEN LET so == RemoveValue(d.shuffle_order, idx)
                               IN  [d EXCEPT !.shuffle_order =
                                        [k \in 1..Len(so) |->
                                            IF so[k] < idx THEN so[k] ELSE so[k] - 1]]
                          ELSE d
                      Fin(d) == LET r == Renumber(d)
                                IN  {Return(Emit(r, QueueUpdated(r)), "removed", -1, removed)}
                  IN  Then(Cur, Fin)

\* move {from, to}; -1 when an argument is absent
\* CmdMove that leaves queue_pos alone unless the current track is moved
CmdMove_PositionStays(D, from_idx, to_idx) ==
    IF ~(0 <= from_idx /\ from_idx < Len(D.queue)
         /\ 0 <= to_idx /\ to_idx < Len(D.queue))
    THEN {Raise(D, "IndexError")}
    ELSE LET track == D.queue[from_idx + 1]
             Q  == InsertAt(RemoveAt(D.queue, from_idx), to_idx, track)
             D1 == [D EXCEPT !.queue = Q,
                             !.queue_pos = IF from_idx = @ THEN to_idx ELSE @]
         IN  ReturnQueuePosition(Emit(D1, QueueUpdated(D1)))

CmdMove(D, from_idx, to_idx) ==
    IF ~(0 <= from_idx /\ from_idx < Len(D.queue)
         /\ 0 <= to_idx /\ to_idx < Len(D.queue))
    THEN {Raise(D, "IndexError")}
    ELSE LET track == D.queue[from_idx + 1]
             Q  == InsertAt(RemoveAt(D.queue, from_idx), to_idx, track)
             qp == D.queue_pos
             np == IF from_idx = qp THEN to_idx
                   ELSE IF from_idx < qp /\ qp <= to_idx THEN qp - 1
                   ELSE IF to_idx <= qp /\ qp < from_idx THEN qp + 1
                   ELSE qp
             D1 == [D EXCEPT !.queue = Q, !.queue_pos = np]
         IN  ReturnQueuePosition(Emit(D1, QueueUpdated(D1)))

\* the body of _cmd_clear up to its return
Clear(D) ==
    LET D1 == [Player_stop(D) EXCEPT !.state = "stopped", !.queue = <<>>,
                                     !.queue_pos = 0, !.shuffle_order = <<>>]
    IN  Emit(D1, QueueUpdated(D1))

CmdClear(D) == {Return(Clear(D), "cleared", -1, "true")}

\* CmdJump without the test of the index
CmdJump_Unchecked(D, idx) ==
    Then(PlayCurrent([D EXCEPT !.queue_pos = idx]), ReturnQueuePosition)

\* jump {index}; -1 when the argument is absent
CmdJump(D, idx) ==
    IF idx < 0 \/ idx >= Len(D.queue) THEN {Raise(D, "IndexError")}
    ELSE Then(PlayCurrent([D EXCEPT !.queue_pos = idx]), ReturnQueuePosition)

\* CmdShuffle that leaves the current index where random.shuffle put it
CmdShuffle_AsShuffled(D, enabled) ==
    IF enabled
    THEN {Return([D EXCEPT !.shuffle = TRUE, !.shuffle_order = so], "shuffle", -1, "true")
          : so \in Shuffled(Range(Len(D.queue)))}
    ELSE {Return([D EXCEPT !.shuffle = FALSE, !.shuffle_order = <<>>],
                 "shuffle", -1, "false")}

\* CmdShuffle without the clear() of the disabling branch
CmdShuffle_KeepsOrder(D, enabled) ==
    IF enabled
    THEN {Return([D EXCEPT !.shuffle = TRUE, !.shuffle_order = so], "shuffle", -1, "true")
          : so \in Shuffled(Range(Len(D.queue)))}
    ELSE {Return([D EXCEPT !.shuffle = FALSE], "shuffle", -1, "false")}

CmdShuffle(D, enabled) ==
    IF enabled
    THEN {Return([D EXCEPT !.shuffle = TRUE,
                           !.shuffle_order =
                               IF IndexOf(so, D.queue_pos) # -1
                               THEN InsertAt(RemoveValue(so, D.queue_pos), 0, D.queue_pos)
                               ELSE so],
                 "shuffle", -1, "true")
          : so \in Shuffled(Range(Len(D.queue)))}
    ELSE {Return([D EXCEPT !.shuffle = FALSE, !.shuffle_order = <<>>],
                 "shuffle", -1, "false")}

CmdRepeat(D, mode) ==
    IF mode \notin {"none", "queue", "track"} THEN {Raise(D, "ValueError")}
    ELSE {Return([D EXCEPT !.repeat = mode], "repeat", -1, mode)}

\* status: the track record is built from queue[queue_pos]
CmdStatus(D) ==
    IF D.queue # <<>> /\ ~InRange(D.queue, D.queue_pos) THEN {Raise(D, "IndexError")}
    ELSE {Return(D, "status", D.queue_pos, D.state)}

CmdSubscribe(D) == {Return([D EXCEPT !.has_subscribers = TRUE], "subscribed", -1, "true")}

CmdPing(D) == {Return(D, "pong", -1, "true")}

\* shutdown: the handler answers; the SIGTERM it schedules with call_soon
\* is the step of the process that dispatched it
CmdShutdown(D) == {Return(D, "shutting_down", -1, "true")}

\* get_position(): _position / SAMPLE_RATE
get_position(D) == D.p_position * SubFrame

\* int(position * SAMPLE_RATE): truncation towards zero
ToFrame(t) == IF t >= 0 THEN t \div SubFrame ELSE -((-t) \div SubFrame)

\* CmdSeek that takes "+t" and "-t" for the absolute t and -t
CmdSeek_Absolute(D, kind, t) ==
    IF kind = "bad" THEN {Raise(D, "ValueError")}
    ELSE LET pos == CASE kind = "-" -> -t
                      [] kind = ""  -> 0
                      [] OTHER      -> t
             clamped == Max(0, pos)
         IN  {Return(Player_seek(D, ToFrame(clamped)), "position", clamped, "")}

\* seek {pos}: kind is "number" for a JSON number, "+" and "-" for the
\* strings "+t" and "-t", "string" for a string holding a plain number,
\* "bad" for any other string, "" when pos is absent (default 0)
CmdSeek(D, kind, t) ==
    IF kind = "bad" THEN {Raise(D, "ValueError")}
    ELSE LET current == get_position(D)
             pos == CASE kind = "+" -> current + t
                      [] kind = "-" -> current - t
                      [] kind = ""  -> 0
                      [] OTHER      -> t
             clamped == Max(0, pos)
         IN  {Return(Player_seek(D, ToFrame(clamped)), "position", clamped, "")}

\* CmdVolume that leaves the clamping to the player
CmdVolume_Unclamped(D, level) ==
    LET l == IF level = <<>> THEN 80 ELSE level[1]
    IN  {Return(Player_set_volume([D EXCEPT !.volume = l], l), "volume", l, "")}

\* volume {level}; level = <<>> when absent (default 80)
CmdVolume(D, level) ==
    LET l == Max(0, Min(100, IF level = <<>> THEN 80 ELSE level[1]))
    IN  {Return(Player_set_volume([D EXCEPT !.volume = l], l), "volume", l, "")}

\* rate {speed} in hundredths; speed = <<>> when absent (default 1.0)
CmdRate(D, speed) ==
    LET r == Max(25, Min(400, IF speed = <<>> THEN 100 ELSE speed[1]))
    IN  {Return(Player_set_rate([D EXCEPT !.rate = r], r), "rate", r, "")}

\* "\n".join(queue) + "\n" as splitlines() will return it
JoinedLines(q) == IF q = <<>> THEN <<"">> ELSE q

\* save {name, format}; format = "" when absent (default json)
CmdSave(D, name, format) ==
    IF name = "" THEN {Raise(D, "ValueError")}
    ELSE LET fmt == IF format = "" THEN "json" ELSE format
             Write(ext, lines) ==
                 {Return([D EXCEPT !.files[ext] = [exists |-> TRUE, lines |-> lines]],
                         "track_count", Len(D.queue), ext)}
         IN  CASE fmt = "json" -> Write(".json", D.queue)
               [] fmt = "m3u"  -> Write(".m3u", <<"#EXTM3U">> \o JoinedLines(D.queue))
               [] fmt = "txt"  -> Write(".txt", JoinedLines(D.queue))
               [] OTHER        -> {Raise(D, "ValueError")}

\* CmdLoad that queues every line of the playlist
CmdLoad_Unfiltered(D, found, tracks) ==
    IF ~found THEN {Raise(D, "FileNotFoundError")}
    ELSE LET D1 == [Clear(D) EXCEPT !.queue = tracks]
         IN  {Return(IF D1.shuffle THEN [D1 EXCEPT !.shuffle_order = so] ELSE D1,
                     "track_count", Len(tracks), "")
              : so \in Shuffled(Range(Len(tracks)))}

\* load {name}: the playlist file found for name holds the lines tracks;
\* found = FALSE when no file of that name exists
CmdLoad(D, found, tracks) ==
    IF ~found THEN {Raise(D, "FileNotFoundError")}
    ELSE LET C == Clear(D)
             Q == SelectSeq(tracks, is_supported)
             D1 == [C EXCEPT !.queue = Q]
         IN  {Return(IF D1.shuffle THEN [D1 EXCEPT !.shuffle_order = so] ELSE D1,
                     "track_count", Len(Q), "")
              : so \in Shuffled(Range(Len(Q)))}

\* HandleTrackEnd that leaves state as it is when advance fails
HandleTrackEnd_KeepsState(D) ==
    IF D.repeat = "track" THEN PlayCurrent(D)
    ELSE UNION {IF A.ok THEN PlayCurrent(A.d)
                ELSE {Emit(A.d, Event("queue_finished", "", -1, <<>>))}
                : A \in Advance(D)}

\* HandleTrackEnd without the test for repeat = "track"
HandleTrackEnd_AlwaysAdvances(D) ==
    UNION {IF A.ok THEN PlayCurrent(A.d)
           ELSE {Emit([A.d EXCEPT !.state = "stopped"],
                      Event("queue_finished", "", -1, <<>>))}
           : A \in Advance(D)}

\* _handle_track_end, the task posted by _on_track_end
HandleTrackEnd(D) ==
    IF D.repeat = "track" THEN PlayCurrent(D)
    ELSE UNION {IF A.ok THEN PlayCurrent(A.d)
                ELSE {Emit([A.d EXCEPT !.state = "stopped"],
                           Event("queue_finished", "", -1, <<>>))}
                : A \in Advance(D)}

(***************************************************************************)
(* Playlist files of one name under ${data}/playlists: for each extension  *)
(* either no file or the lines (tracks) it holds.                          *)
(***************************************************************************)
PlaylistExts == <<".json", ".m3u", ".txt">>
NoFile == [exists |-> FALSE, lines |-> <<>>]
File(lines) == [exists |-> TRUE, lines |-> lines]

\* the first existing file in the order .json, .m3u, .txt
FindPlaylist(files) ==
    IF \E k \in 1..Len(PlaylistExts) : files[PlaylistExts[k]].exists
    THEN LET k == CHOOSE k \in 1..Len(PlaylistExts) :
                      /\ files[PlaylistExts[k]].exists
                      /\ \A m \in 1..(k - 1) : ~files[PlaylistExts[m]].exists
         IN  PlaylistExts[k]
    ELSE ""

\* line.strip() and not line.startswith("#")
IsTrackLine(l) == l # "" /\ l \notin ({"#EXTM3U"} \cup Hashed)

\* the tracks _cmd_load reads from the file with extension ext
ReadPlaylist(files, ext) ==
    IF ext = ".json" THEN files[ext].lines
    ELSE SelectSeq(files[ext].lines, IsTrackLine)

(***************************************************************************)
(* Request lines and _dispatch.                                            *)
(*   form: "object" (a JSON object), "not_object" (valid JSON that is no   *)
(*         object, such as [] or 5), "not_json"                            *)
(*   id, cmd: "" when the key is absent; cmd "[1]" is a non-empty list     *)
(*   s, i, b: the string, integer and boolean arguments of the command     *)
(***************************************************************************)
Line(form, id, cmd, s, i, b) ==
    [form |-> form, id |-> id, cmd |-> cmd, s |-> s, i |-> i, b |-> b]

\* What a step of the control task ends with.  A response is the dict
\* returned by _dispatch: id, ok and either data (key with its value num or
\* str) or error.message (str); req and cmd are the id and cmd of the
\* request line it answers.
Result(kind, line, id, ok, key, num, str) ==
    [kind |-> kind, req |-> line.id, cmd |-> line.cmd,
     id |-> id, ok |-> ok, key |-> key, num |-> num, str |-> str]
NoRequest == [id |-> "", cmd |-> ""]
Response(line, id, ok, key, num, str) == Result("response", line, id, ok, key, num, str)
\* _dispatch raised instead of returning
Raised(line, e) == Result("raised", line, "", FALSE, "", -1, e)
\* a _handle_track_end task ended, with exception e or "" for none
TaskDone(e) == Result("task", NoRequest, "", e = "", "", -1, e)
\* no step has ended
NoResponse == Result("none", NoRequest, "", FALSE, "", -1, "")

Handlers == {"play", "pause", "stop", "next", "prev", "add", "remove", "move",
             "clear", "jump", "shuffle", "repeat", "status", "subscribe",
             "load", "ping", "seek", "volume", "rate", "save", "shutdown"}

Handler(D, files, line) ==
    CASE line.cmd = "play"      -> CmdPlay(D, line.s)
      [] line.cmd = "pause"     -> CmdPause(D)
      [] line.cmd = "stop"      -> CmdStop(D)
      [] line.cmd = "next"      -> CmdNext(D)
      [] line.cmd = "prev"      -> CmdPrev(D)
      [] line.cmd = "add"       -> CmdAdd(D, line.s)
      [] line.cmd = "remove"    -> CmdRemove(D, line.i)
      [] line.cmd = "move"      -> CmdMove(D, line.i[1], line.i[2])
      [] line.cmd = "clear"     -> CmdClear(D)
      [] line.cmd = "jump"      -> CmdJump(D, line.i[1])
      [] line.cmd = "shuffle"   -> CmdShuffle(D, line.b)
      [] line.cmd = "repeat"    -> CmdRepeat(D, line.s)
      [] line.cmd = "status"    -> CmdStatus(D)
      [] line.cmd = "subscribe" -> CmdSubscribe(D)
      [] line.cmd = "load"      ->
            LET ext == IF line.s = "p" THEN FindPlaylist(files) ELSE ""
            IN  CmdLoad(D, ext # "", IF ext = "" THEN <<>> ELSE ReadPlaylist(files, ext))
      [] line.cmd = "ping"      -> CmdPing(D)
      [] line.cmd = "seek"      -> CmdSeek(D, line.s, IF line.i = <<>> THEN 0 ELSE line.i[1])
      [] line.cmd = "volume"    -> CmdVolume(D, line.i)
      [] line.cmd = "rate"      -> CmdRate(D, line.i)
      \* the playlist saved is the one named p; s is the format
      [] line.cmd = "save"      -> CmdSave(D, "p", line.s)
      [] line.cmd = "shutdown"  -> CmdShutdown(D)

Outcome(D, r) == [d |-> [D EXCEPT !.exc = ""], r |-> r]

\* _dispatch without its last except clause: only FileNotFoundError,
\* IndexError and ValueError become failure responses
Dispatch_NoCatchAll(D, files, line) ==
    IF line.form # "object" \/ line.cmd \notin Handlers
    THEN {Outcome(D, Raised(NoRequest, "AttributeError"))}
    ELSE {Outcome(d, IF d.exc = ""
                     THEN Response(line, line.id, TRUE, d.ret.key, d.ret.num, d.ret.str)
                     ELSE IF d.exc \in {"FileNotFoundError", "IndexError", "ValueError"}
                     THEN Response(line, line.id, FALSE, "error", -1, d.exc)
                     ELSE Raised(line, d.exc))
          : d \in Handler(D, files, line)}

\* _dispatch: the outcomes [d, r] of one request line, r the response
\* returned or the exception that left _dispatch
Dispatch(D, files, line) ==
    IF line.form = "not_json"
    THEN {Outcome(D, Response(NoRequest, "unknown", FALSE, "error", -1, "JSONDecodeError"))}
    ELSE IF line.form = "not_object"
    THEN {Outcome(D, Raised(NoRequest, "AttributeError"))}
    ELSE LET req_id == IF line.id = "" THEN "unknown" ELSE line.id
         IN  IF line.cmd = ""
             THEN {Outcome(D, Response(line, req_id, FALSE, "error", -1, "No command"))}
             ELSE IF line.cmd = "[1]"
             THEN {Outcome(D, Raised(line, "TypeError"))}
             ELSE IF line.cmd \notin Handlers
             THEN {Outcome(D, Response(line, req_id, FALSE, "error", -1, "Unknown command"))}
             ELSE {Outcome(d, IF d.exc = ""
                              THEN Response(line, req_id, TRUE, d.ret.key, d.ret.num, d.ret.str)
                              ELSE Response(line, req_id, FALSE, "error", -1, d.exc))
                   : d \in Handler(D, files, line)}

(***************************************************************************)
(* The outbound channel.  A line of _resp_queue is a response or an event  *)
(* as serialised by json.dumps, here the record with its serial: n is the  *)
(* serial of the response or of the event, by the serial of the response   *)
(* whose handler emitted the event (0 when no handler did).                *)
(***************************************************************************)
\* capacity of _resp_queue: asyncio.Queue(maxsize=256), scaled down
MaxRespQueue == 2

ResponseLine(r, n) == [type |-> "response", n |-> n, by |-> n, id |-> r.id, body |-> r.str,
                       ok |-> r.ok]
EventLine(e, n, by) == [type |-> "event", n |-> n, by |-> by, id |-> "", body |-> e.event,
                        ok |-> TRUE]
NoLine == [type |-> "none", n |-> 0, by |-> 0, id |-> "", body |-> "", ok |-> FALSE]

\* asyncio.Queue.full()
Full(q) == Len(q) >= MaxRespQueue

\* PutNowait making room by dropping the oldest line
PutNowait_DropsOldest(q, msg) == IF Full(q) THEN Append(Tail(q), msg) ELSE Append(q, msg)

\* _emit: put_nowait, the message dropped on QueueFull
PutNowait(q, msg) == IF Full(q) THEN q ELSE Append(q, msg)

\* the events evs handed to _emit one after the other, the first of them
\* with serial n + 1
RECURSIVE EmitAll(_, _, _, _)
EmitAll(q, evs, n, by) ==
    IF evs = <<>> THEN q
    ELSE EmitAll(PutNowait(q, EventLine(Head(evs), n + 1, by)), Tail(evs), n + 1, by)

\* QueueGet taking the newest line
QueueGet_Newest(q) == [line |-> q[Len(q)], rest |-> SubSeq(q, 1, Len(q) - 1)]

\* asyncio.Queue.get(): the line taken and the lines left
QueueGet(q) == [line |-> Head(q), rest |-> Tail(q)]

\* QueuePut as put_nowait with QueueFull swallowed: a full queue loses the line
QueuePut_Nowait(q, line) ==
    [queue |-> IF Full(q) THEN q ELSE Append(q, line), held |-> NoLine]

\* QueuePut placing the line ahead of the lines queued
QueuePut_Front(q, line) ==
    IF Full(q) THEN [queue |-> q, held |-> line]
    ELSE [queue |-> <<line>> \o q, held |-> NoLine]

\* asyncio.Queue.put(line) as far as it gets without waiting: the queue,
\* and in held the line the caller waits with while the queue is full
QueuePut(q, line) ==
    IF Full(q) THEN [queue |-> q, held |-> line]
    ELSE [queue |-> Append(q, line), held |-> NoLine]

(***************************************************************************)
(* Start-up of daemon processes (_Runner.run) in one runtime directory.    *)
(* A process is named by its pid; 0 stands for "no file".                  *)
(***************************************************************************)
Procs == 1..MaxDaemons
\* the pid of a daemon that was killed before this run: no such process
Crashed == MaxDaemons + 1
\* os.kill(pid, 0) succeeds: the process exists
Alive(pc, pid) == pid \in Procs /\ pc[pid] \in {"start", "checked", "pid", "serving", "stopping"}

(***************************************************************************)
(* Session (src/src/atk/daemon/session.py) and its persisted form.         *)
(***************************************************************************)
\* RepeatMode(value) and RepeatMode.value
RepeatMode(value) ==
    CASE value = "none" -> "NONE" [] value = "queue" -> "QUEUE" [] value = "track" -> "TRACK"
RepeatValue(member) ==
    CASE member = "NONE" -> "none" [] member = "QUEUE" -> "queue" [] member = "TRACK" -> "track"

\* Session.to_dict, the DSP and loop fields left out
to_dict(S) ==
    [name |-> S.name, queue |-> S.queue, position |-> S.position,
     current_index |-> S.queue_position, shuffle |-> S.shuffle,
     shuffle_order |-> S.shuffle_order, repeat |-> RepeatValue(S.repeat),
     volume |-> S.volume, rate |-> S.rate]

\* from_dict ignoring the stored current_index
from_dict_AtStart(data) ==
    [name |-> data.name, player_volume |-> Max(0, Min(100, data.volume)),
     player_rate |-> Max(25, Min(400, data.rate)),
     queue |-> data.queue, position |-> data.position,
     queue_position |-> 0, shuffle |-> data.shuffle,
     shuffle_order |-> data.shuffle_order, repeat |-> RepeatMode(data.repeat),
     volume |-> data.volume, rate |-> data.rate]

\* Session.from_dict on a dict that holds every key
from_dict(data) ==
    [name |-> data.name, player_volume |-> Max(0, Min(100, data.volume)),
     player_rate |-> Max(25, Min(400, data.rate)),
     queue |-> data.queue, position |-> data.position,
     queue_position |-> data.current_index, shuffle |-> data.shuffle,
     shuffle_order |-> data.shuffle_order, repeat |-> RepeatMode(data.repeat),
     volume |-> data.volume, rate |-> data.rate]

\* no Session object, no dict
NoSession == [name |-> ""]
NoDict == [name |-> ""]

(***************************************************************************)
(* State.                                                                  *)
(***************************************************************************)
VARIABLES
    \* Daemon
    queue, queue_pos, shuffle, shuffle_order, repeat, volume, state, rate,
    has_subscribers,
    \* Player
    p_uri, p_samples, p_position, p_active, p_playing, p_device, p_volume, p_rate,
    \* the generator the device pulls from: where the device thread is in
    \* _audio_generator, with its locals
    gen,
    \* _handle_track_end tasks created by _on_track_end and not yet run
    pending_ends,
    \* the playlist files of name "p"
    files,
    \* what the last step of the control task produced: the response of
    \* _dispatch and the events it handed to _emit, in order
    resp, emitted,
    \* where the control task is: "idle" (waiting for a line or a task),
    \* "put" (_read_loop is past _dispatch), "done" (a track-end task ended)
    ctl,
    \* _resp_queue: the lines waiting for _write_loop, oldest first
    resp_queue,
    \* the response _read_loop is blocked on in _resp_queue.put, if any
    held,
    \* the line _write_loop has taken and not yet written, if any
    wr,
    \* responses returned by _dispatch, events handed to _emit, so far:
    \* the n-th response and the n-th event carry n as their serial
    nresp, nev,
    \* responses _write_loop has taken from _resp_queue
    taken,
    \* serial of the last response written to the pipe, 0 for none
    last_written,
    \* where each daemon process is in _Runner.run; the pid that daemon.pid
    \* holds; the pid of the process that made atk.cmd and atk.resp
    proc, pid_file, pipes,
    \* a Session object and the dict last serialised from one
    sess, ser,
    \* the thread that holds Player._lock ("" for none); where the control
    \* thread is inside a method of Player; where the device thread is
    \* inside _audio_generator, statement by statement
    mutex, cth, ath,
    \* the event loop: the task it is running ("" between tasks), where the
    \* read task and the track-end task are, and the events each has still
    \* to hand to _emit
    loop

session == <<queue, queue_pos, shuffle, shuffle_order, repeat, volume, state, rate,
             has_subscribers>>
player == <<p_uri, p_samples, p_position, p_active, p_playing, p_device,
            p_volume, p_rate>>
\* the state that no command handler touches
runner == <<proc, pid_file, pipes>>
store == <<sess, ser>>
threads == <<mutex, cth, ath, loop>>
other == <<gen, runner, store, threads>>
pipe == <<resp_queue, held, wr, nresp, nev, taken, last_written>>
vars == <<session, player, pending_ends, files, resp, emitted, ctl, pipe, other>>

NoRet == [key |-> "", num |-> -1, str |-> ""]

\* the event loop runs no task: the read task waits for a line and no
\* track-end task has started
LoopFree == [running |-> "", read |-> "reading", end |-> "no", rev |-> <<>>, eev |-> <<>>]

\* the control thread is in no method of Player
Outside == [m |-> "", k |-> 0]

\* a generator that has not been pulled from: at its first yield
NoGenerator == [pc |-> "yield", frames |-> 0, got |-> 0, calls |-> 0]

\* the fields of Daemon and Player as a record
Cur ==
    [queue |-> queue, queue_pos |-> queue_pos, shuffle |-> shuffle,
     shuffle_order |-> shuffle_order, repeat |-> repeat, volume |-> volume,
     state |-> state, rate |-> rate, has_subscribers |-> has_subscribers,
     p_uri |-> p_uri, p_samples |-> p_samples, p_position |-> p_position,
     p_active |-> p_active, p_playing |-> p_playing, p_device |-> p_device,
     p_volume |-> p_volume, p_rate |-> p_rate, files |-> files,
     out |-> <<>>, exc |-> "", ret |-> NoRet, joined |-> FALSE]

Set(D) ==
    /\ queue' = D.queue
    /\ queue_pos' = D.queue_pos
    /\ shuffle' = D.shuffle
    /\ shuffle_order' = D.shuffle_order
    /\ repeat' = D.repeat
    /\ volume' = D.volume
    /\ state' = D.state
    /\ rate' = D.rate
    /\ has_subscribers' = D.has_subscribers
    /\ p_uri' = D.p_uri
    /\ p_samples' = D.p_samples
    /\ p_position' = D.p_position
    /\ p_active' = D.p_active
    /\ p_playing' = D.p_playing
    /\ p_device' = D.p_device
    /\ p_volume' = D.p_volume
    /\ p_rate' = D.p_rate
    /\ files' = D.files

\* Daemon.__init__ and Player.__init__; rate is in hundredths
InitDaemon ==
    /\ queue = <<>>
    /\ queue_pos = 0
    /\ shuffle = FALSE
    /\ shuffle_order = <<>>
    /\ repeat = "none"
    /\ volume = 80
    /\ state = "stopped"
    /\ rate = 100
    /\ has_subscribers = FALSE
    /\ p_uri = ""
    /\ p_samples = ""
    /\ p_position = 0
    /\ p_active = FALSE
    /\ p_playing = FALSE
    /\ p_device = "none"
    /\ p_volume = 80
    /\ p_rate = 100
    /\ gen = NoGenerator
    /\ pending_ends = 0
    /\ resp = NoResponse
    /\ emitted = <<>>
    /\ ctl = "idle"
    /\ resp_queue = <<>>
    /\ held = NoLine
    /\ wr = NoLine
    /\ nresp = 0
    /\ nev = 0
    /\ taken = 0
    /\ last_written = 0
    /\ mutex = ""
    /\ cth = Outside
    /\ ath = "off"
    /\ loop = LoopFree

\* the playlist directory found at start-up
StoredPlaylists ==
    {[e \in {".json", ".m3u", ".txt"} |->
        IF e = ".m3u" THEN File(<<"#EXTM3U", "a.mp3", "n.txt", "x.mp3">>) ELSE NoFile]}

\* the daemon modelled is process 1, past Daemon.start
InitRunner ==
    /\ proc = [p \in Procs |-> IF p = 1 THEN "serving" ELSE "off"]
    /\ pid_file = 1
    /\ pipes = 1

InitStore == sess = NoSession /\ ser = NoDict

Init == InitDaemon /\ files \in StoredPlaylists /\ InitRunner /\ InitStore

(***************************************************************************)
(* Steps.                                                                  *)
(***************************************************************************)
\* the queue a line would grow beyond the bound
Grows(line) ==
    /\ line.cmd \in {"play", "add"}
    /\ line.s # ""
    /\ Len(queue) >= MaxQueue \/ Len(shuffle_order) >= MaxQueue

\* _read_loop has read one request line and runs _dispatch on it; the
\* response it returns is in hand until the put that follows
Control(line) ==
    /\ ctl = "idle"
    /\ ~Grows(line)
    /\ \E R \in Dispatch(Cur, files, line) :
          /\ Set(R.d)
          /\ resp' = R.r
          /\ emitted' = R.d.out
    /\ ctl' = "put"
    /\ UNCHANGED <<pending_ends, other>>

\* the event loop runs a posted _handle_track_end to its end; the task's
\* done-callback (which logs the exception, if any) is then due
TrackEnd ==
    /\ ctl = "idle"
    /\ pending_ends > 0
    /\ pending_ends' = pending_ends - 1
    /\ \E d \in HandleTrackEnd(Cur) :
          /\ Set([d EXCEPT !.exc = ""])
          /\ resp' = TaskDone(d.exc)
          /\ emitted' = d.out
    /\ ctl' = "done"
    /\ UNCHANGED other

\* the control task goes back to waiting
Waiting ==
    /\ ctl' = "idle"
    /\ resp' = NoResponse
    /\ emitted' = <<>>
    /\ UNCHANGED <<session, player, pending_ends, files, other>>

(***************************************************************************)
(* The session on its own.  No handler reads _resp_queue, so the session   *)
(* and the engine evolve the same whatever the outbound channel holds;     *)
(* these steps leave the channel out and keep what a step hands to it in   *)
(* resp and emitted.                                                       *)
(***************************************************************************)
Command(line) == Control(line) /\ UNCHANGED pipe

NaturalEnd == TrackEnd /\ UNCHANGED pipe

\* the response is handed over (or the exception of _dispatch is logged),
\* or the done-callback of the track-end task has run
Resume == ctl # "idle" /\ Waiting /\ UNCHANGED pipe

(***************************************************************************)
(* The daemon with its pipes.                                              *)
(***************************************************************************)
\* _read_loop, lines 99-101: a line is read and dispatched; the events of
\* the handler go to _resp_queue as they are emitted
ReadLoop(line) ==
    /\ held = NoLine
    /\ Control(line)
    /\ nev' = nev + Len(emitted')
    /\ nresp' = IF resp'.kind = "response" THEN nresp + 1 ELSE nresp
    /\ resp_queue' = EmitAll(resp_queue, emitted', nev, nresp')
    /\ UNCHANGED <<held, wr, taken, last_written>>

\* _read_loop, line 102: await _resp_queue.put(response); on a full queue
\* the read loop waits in put and the event loop runs the other tasks.
\* When _dispatch raised, line 102 is skipped for the except branch.
ReadLoopPut ==
    /\ ctl = "put"
    /\ Waiting
    /\ IF resp.kind # "response"
       THEN UNCHANGED <<resp_queue, held>>
       ELSE LET P == QueuePut(resp_queue, ResponseLine(resp, nresp))
            IN  resp_queue' = P.queue /\ held' = P.held
    /\ UNCHANGED <<wr, nresp, nev, taken, last_written>>

\* the put the read loop waits in completes once the queue has room
PutWakes ==
    /\ ctl = "idle"
    /\ held # NoLine
    /\ ~Full(resp_queue)
    /\ resp_queue' = QueuePut(resp_queue, held).queue
    /\ held' = NoLine
    /\ UNCHANGED <<session, player, pending_ends, files, resp, emitted, ctl, other,
                   wr, nresp, nev, taken, last_written>>

\* a posted _handle_track_end runs; its events go to _resp_queue
TrackEndTask ==
    /\ TrackEnd
    /\ nev' = nev + Len(emitted')
    /\ resp_queue' = EmitAll(resp_queue, emitted', nev, 0)
    /\ UNCHANGED <<held, wr, nresp, taken, last_written>>

\* the done-callback of the track-end task
TaskDoneCallback ==
    /\ ctl = "done"
    /\ Waiting
    /\ UNCHANGED pipe

\* _position_loop after its sleep of one second
PositionTick ==
    /\ ctl = "idle"
    /\ nev < MaxEvents
    /\ state = "playing" /\ has_subscribers
    /\ nev' = nev + 1
    /\ resp_queue' = EmitAll(resp_queue, <<Event("position_update", "", -1, <<>>)>>, nev, 0)
    /\ UNCHANGED <<session, player, pending_ends, files, resp, emitted, ctl, other,
                   held, wr, nresp, taken, last_written>>

\* _write_loop, line 113: a line is taken from _resp_queue
WriteLoopGet ==
    /\ ctl = "idle"
    /\ wr = NoLine
    /\ resp_queue # <<>>
    /\ wr' = QueueGet(resp_queue).line
    /\ resp_queue' = QueueGet(resp_queue).rest
    /\ taken' = IF wr'.type = "response" THEN taken + 1 ELSE taken
    /\ UNCHANGED <<session, player, pending_ends, files, resp, emitted, ctl, other,
                   held, nresp, nev, last_written>>

\* WriteLoopWrite putting the line of a failed write back at the head of
\* the queue
WriteLoopWrite_Retries(written) ==
    /\ wr # NoLine
    /\ wr' = NoLine
    /\ last_written' = IF written /\ wr.type = "response" THEN wr.n ELSE last_written
    /\ resp_queue' = IF written THEN resp_queue ELSE <<wr>> \o resp_queue
    /\ UNCHANGED <<session, player, pending_ends, files, resp, emitted, ctl, other,
                   held, nresp, nev, taken>>

\* _write_loop, lines 119-128: the line is written to atk.resp, or the
\* write fails with OSError and the line is gone
WriteLoopWrite(written) ==
    /\ wr # NoLine
    /\ wr' = NoLine
    /\ last_written' = IF written /\ wr.type = "response" THEN wr.n ELSE last_written
    /\ UNCHANGED <<session, player, pending_ends, files, resp, emitted, ctl, other,
                   resp_queue, held, nresp, nev, taken>>

\* one pull of the device from _audio_generator, frames source frames long
AudioCallback(frames) ==
    /\ p_device = "running"
    /\ IF ~p_active \/ (p_playing /\ p_samples = "")
       THEN /\ p_device' = "done"
            /\ UNCHANGED <<p_position, p_active, p_playing, pending_ends>>
       ELSE IF ~p_playing
       THEN UNCHANGED <<p_device, p_position, p_active, p_playing, pending_ends>>
       ELSE IF p_position >= Frames(p_samples)
       THEN /\ p_active' = FALSE
            /\ p_playing' = FALSE
            /\ p_device' = "done"
            /\ p_position' = p_position
            \* _on_track_end runs on the device thread: create_task either
            \* posts the task or raises for want of a running loop
            /\ \/ pending_ends < MaxPendingEnds /\ pending_ends' = pending_ends + 1
               \/ pending_ends' = pending_ends
       ELSE /\ p_position' = Min(p_position + frames, Frames(p_samples))
            /\ UNCHANGED <<p_device, p_active, p_playing, pending_ends>>
    /\ UNCHANGED <<session, p_uri, p_samples, p_volume, p_rate, files, resp, emitted,
                   ctl, pipe, other>>

Ids == {"1"}
Indices == -1..MaxQueue

\* the request lines a client may write
Lines ==
    {Line("object", id, c, "", <<>>, FALSE)
        : id \in Ids, c \in {"pause", "stop", "next", "prev", "clear", "status", "play"}}
    \cup {Line("object", id, c, u, <<>>, FALSE)
        : id \in Ids, c \in {"play", "add"}, u \in Uris}
    \cup {Line("object", id, "remove", "", ix, FALSE)
        : id \in Ids, ix \in {<<>>} \cup {<<i>> : i \in Indices}}
    \cup {Line("object", id, "jump", "", <<i>>, FALSE) : id \in Ids, i \in Indices}
    \cup {Line("object", id, "move", "", <<i, j>>, FALSE)
        : id \in Ids, i \in Indices, j \in Indices}
    \cup {Line("object", id, "shuffle", "", <<>>, b) : id \in Ids, b \in BOOLEAN}
    \cup {Line("object", id, "repeat", m, <<>>, FALSE)
        : id \in Ids, m \in {"none", "queue", "track", "all"}}
    \cup {Line("object", id, "load", n, <<>>, FALSE) : id \in Ids, n \in {"p", "q"}}

Next ==
    \/ \E line \in Lines : Command(line)
    \/ NaturalEnd
    \/ Resume
    \/ \E frames \in 1..TotalFrames : AudioCallback(frames)

Spec == Init /\ [][Next]_vars

PipeIds == {"1", "2"}

\* the request lines written to atk.cmd
PipeLines ==
    {Line("object", id, c, "", <<>>, FALSE)
        : id \in PipeIds \cup {""}, c \in {"ping", "subscribe", "stop", "", "bogus", "[1]"}}
    \cup {Line("object", id, "play", "a.mp3", <<>>, FALSE) : id \in PipeIds}
    \cup {Line("object", id, "jump", "", <<1>>, FALSE) : id \in PipeIds}
    \cup {Line(f, "", "", "", <<>>, FALSE) : f \in {"not_json", "not_object"}}

NextPipe ==
    \/ \E line \in PipeLines : nresp < MaxLines /\ nev < MaxEvents /\ ReadLoop(line)
    \/ ReadLoopPut
    \/ PutWakes
    \/ TrackEndTask
    \/ TaskDoneCallback
    \/ PositionTick
    \/ WriteLoopGet
    \/ \E written \in BOOLEAN : WriteLoopWrite(written)
    \/ \E frames \in 1..TotalFrames : AudioCallback(frames)

SpecPipe == Init /\ [][NextPipe]_vars

(***************************************************************************)
(* Daemon processes starting and ending in one runtime directory.          *)
(***************************************************************************)
\* the state of one daemon's tasks, which a start-up does not touch
daemon == <<session, player, pending_ends, files, resp, emitted, ctl, pipe, gen>>

\* process p moves on in _Runner.run
At(p, from, to) ==
    /\ proc[p] = from
    /\ proc' = [proc EXCEPT ![p] = to]
    /\ UNCHANGED <<daemon, store, threads>>

\* a process enters _Runner.run
Launch(p) ==
    /\ At(p, "off", "start")
    /\ UNCHANGED <<pid_file, pipes>>

\* _is_running(): True ends the process with sys.exit(1); a pid file whose
\* process does not exist is stale and is removed together with the pipes
IsRunning(p) ==
    /\ proc[p] = "start"
    /\ IF pid_file = 0
       THEN At(p, "start", "checked") /\ UNCHANGED <<pid_file, pipes>>
       ELSE IF Alive(proc, pid_file)
       THEN At(p, "start", "exit1") /\ UNCHANGED <<pid_file, pipes>>
       ELSE At(p, "start", "checked") /\ pid_file' = 0 /\ pipes' = 0

\* (runtime_dir / "daemon.pid").write_text(str(os.getpid()))
WritePid(p) ==
    /\ At(p, "checked", "pid")
    /\ pid_file' = p
    /\ UNCHANGED pipes

\* Daemon.start: each pipe is unlinked if it exists and made anew
DaemonStart(p) ==
    /\ At(p, "pid", "serving")
    /\ pipes' = p
    /\ UNCHANGED pid_file

\* SIGTERM or SIGINT: Daemon.stop unlinks the pipes that exist
DaemonStop(p) ==
    /\ At(p, "serving", "stopping")
    /\ pipes' = 0
    /\ UNCHANGED pid_file

\* the end of run: the pid file is unlinked if it exists
RunEnds(p) ==
    /\ At(p, "stopping", "stopped")
    /\ pid_file' = 0
    /\ UNCHANGED pipes

\* SIGKILL: the process is gone and its files stay
Killed(p) ==
    /\ At(p, "serving", "killed")
    /\ UNCHANGED <<pid_file, pipes>>

\* before any daemon starts: nothing, or what a killed daemon left
InitStart ==
    /\ InitDaemon /\ files \in StoredPlaylists /\ InitStore
    /\ proc = [p \in Procs |-> "off"]
    /\ pid_file \in {0, Crashed}
    /\ pipes \in {0, Crashed}

NextStart ==
    \/ \E p \in Procs : Launch(p)
    \/ \E p \in Procs : IsRunning(p)
    \/ \E p \in Procs : WritePid(p)
    \/ \E p \in Procs : DaemonStart(p)
    \/ \E p \in Procs : DaemonStop(p)
    \/ \E p \in Procs : RunEnds(p)
    \/ \E p \in Procs : Killed(p)

SpecStart == InitStart /\ [][NextStart]_vars

(***************************************************************************)
(* The engine with its device thread.  The steps below follow the device   *)
(* thread through _audio_generator between the points where it takes or    *)
(* releases Player._lock, so that the handlers of the control task run    *)
(* between any two of them.  gen.pc is "yield" (suspended at a yield),     *)
(* "flag" (past `while self._active`), "read" (past the test of playing),  *)
(* "end" (the chunk read was empty), "done" (returned); gen.frames is      *)
(* required_frames, gen.got the frames of the last chunk read, gen.calls   *)
(* the invocations of the end-callback by this generator.                  *)
(***************************************************************************)
\* frames the device asks for in one pull (a whole period)
Periods == {4, 8}

\* int(required_frames * self._rate) if self._rate != 1.0 else required_frames
SourceFrames(required_frames, r) ==
    IF r # 100 THEN (required_frames * r) \div 100 ELSE required_frames

\* _read_chunk that advances the cursor by the frames asked for
ReadChunk_PastEnd(D, frames) ==
    IF D.p_samples = "" THEN [got |-> 0, position |-> D.p_position]
    ELSE [got |-> Max(0, Min(D.p_position + frames, Frames(D.p_samples)) - D.p_position),
          position |-> D.p_position + frames]

\* _read_chunk(frames): the frames of the slice copied and the new cursor
ReadChunk(D, frames) ==
    IF D.p_samples = "" THEN [got |-> 0, position |-> D.p_position]
    ELSE LET start == D.p_position
             end == Min(D.p_position + frames, Frames(D.p_samples))
         IN  [got |-> Max(0, end - start),
              position |-> Min(D.p_position + frames, Frames(D.p_samples))]

\* the generator returns: the device has nothing more to pull
GenReturns == gen' = [gen EXCEPT !.pc = "done"] /\ p_device' = "done"

\* the device pulls: send(required_frames) resumes the generator, which
\* tests `while self._active`
GenPull(frames) ==
    /\ p_device = "running"
    /\ gen.pc = "yield"
    /\ IF p_active
       THEN gen' = [gen EXCEPT !.pc = "flag", !.frames = frames] /\ UNCHANGED p_device
       ELSE GenReturns
    /\ UNCHANGED <<session, p_uri, p_samples, p_position, p_active, p_playing,
                   p_volume, p_rate, pending_ends, files, resp, emitted, ctl, pipe,
                   runner, store, threads>>

\* lines 193-203: playing is read under the lock; silence is yielded when
\* it is False, the generator breaks when no buffer is loaded
GenFlag ==
    /\ p_device = "running"
    /\ gen.pc = "flag"
    /\ IF ~p_playing
       THEN gen' = [gen EXCEPT !.pc = "yield"] /\ UNCHANGED p_device
       ELSE IF p_samples = ""
       THEN GenReturns
       ELSE gen' = [gen EXCEPT !.pc = "read"] /\ UNCHANGED p_device
    /\ UNCHANGED <<session, p_uri, p_samples, p_position, p_active, p_playing,
                   p_volume, p_rate, pending_ends, files, resp, emitted, ctl, pipe,
                   runner, store, threads>>

\* lines 205-211: the chunk is read and the cursor advanced under the lock;
\* a chunk with frames in it is processed and yielded
GenRead ==
    /\ p_device = "running"
    /\ gen.pc = "read"
    /\ LET R == ReadChunk(Cur, SourceFrames(gen.frames, p_rate))
       IN  /\ p_position' = R.position
           /\ gen' = [gen EXCEPT !.pc = IF R.got = 0 THEN "end" ELSE "yield",
                                 !.got = R.got]
    /\ UNCHANGED <<session, p_uri, p_samples, p_active, p_playing, p_device,
                   p_volume, p_rate, pending_ends, files, resp, emitted, ctl, pipe,
                   runner, store, threads>>

\* lines 213-218: the flags are cleared under the lock and the end-callback
\* is invoked on the device thread; _on_track_end calls asyncio.create_task
\* there, which posts the task or raises for want of a running loop
GenEnd ==
    /\ p_device = "running"
    /\ gen.pc = "end"
    /\ p_active' = FALSE
    /\ p_playing' = FALSE
    /\ gen' = [gen EXCEPT !.pc = "done", !.calls = @ + 1]
    /\ p_device' = "done"
    /\ \/ pending_ends < MaxPendingEnds /\ pending_ends' = pending_ends + 1
       \/ pending_ends' = pending_ends
    /\ UNCHANGED <<session, p_uri, p_samples, p_position, p_volume, p_rate,
                   files, resp, emitted, ctl, pipe, runner, store, threads>>

\* device.close() returns once the pull in progress has returned, so a
\* handler that closes a running device completes when the generator is
\* suspended; a device started by the handler pulls from a new generator
Closes(D) == D.joined => gen.pc = "yield"
Generator(D) ==
    IF D.joined \/ D.p_device # p_device THEN NoGenerator ELSE gen

\* a request line is dispatched while the device thread runs
EngineCommand(line) ==
    /\ ctl = "idle"
    /\ ~Grows(line)
    /\ \E R \in Dispatch(Cur, files, line) :
          /\ Closes(R.d)
          /\ Set(R.d)
          /\ gen' = Generator(R.d)
          /\ resp' = R.r
          /\ emitted' = R.d.out
    /\ ctl' = "put"
    /\ UNCHANGED <<pending_ends, pipe, runner, store, threads>>

\* a posted _handle_track_end runs while the device thread runs
EngineTrackEnd ==
    /\ ctl = "idle"
    /\ pending_ends > 0
    /\ pending_ends' = pending_ends - 1
    /\ \E d \in HandleTrackEnd(Cur) :
          /\ Closes(d)
          /\ Set([d EXCEPT !.exc = ""])
          /\ gen' = Generator(d)
          /\ resp' = TaskDone(d.exc)
          /\ emitted' = d.out
    /\ ctl' = "done"
    /\ UNCHANGED <<pipe, runner, store, threads>>

\* levels and speeds (in hundredths) a client may ask for
Levels == {-5, 55, 150}
Speeds == {10, 50, 500}
\* times in units of 1/SubFrame frame
Times == {1, 4, 9}

\* the request lines of a client that drives the engine
EngineLines ==
    {Line("object", "1", c, "", <<>>, FALSE) : c \in {"play", "pause", "stop", "next"}}
    \cup {Line("object", "1", "play", u, <<>>, FALSE) : u \in Long \cup Empty}
    \cup {Line("object", "1", "seek", k, <<t>>, FALSE)
            : k \in {"number", "+", "-", "string"}, t \in Times}
    \cup {Line("object", "1", "seek", "number", <<-1>>, FALSE),
          Line("object", "1", "seek", "bad", <<0>>, FALSE),
          Line("object", "1", "seek", "", <<>>, FALSE)}
    \cup {Line("object", "1", "volume", "", l, FALSE)
            : l \in {<<>>} \cup {<<v>> : v \in Levels}}
    \cup {Line("object", "1", "rate", "", s, FALSE)
            : s \in {<<>>} \cup {<<v>> : v \in Speeds}}

NextEngine ==
    \/ \E line \in EngineLines : EngineCommand(line)
    \/ EngineTrackEnd
    \/ Resume
    \/ \E frames \in Periods : GenPull(frames)
    \/ GenFlag
    \/ GenRead
    \/ GenEnd

SpecEngine == Init /\ [][NextEngine]_vars

(***************************************************************************)
(* Session objects and their serialised form (daemon/session.py).  sess is *)
(* a Session, with the volume and rate of its player beside its own        *)
(* fields; ser is the dict last produced by to_dict or found in storage.   *)
(***************************************************************************)
\* Session(name) with the defaults of the dataclass
NewSession(name) ==
    [name |-> name, player_volume |-> 100, player_rate |-> 100,
     queue |-> <<>>, position |-> 0, queue_position |-> 0, shuffle |-> FALSE,
     shuffle_order |-> <<>>, repeat |-> "NONE", volume |-> 80, rate |-> 100]

\* dicts found in storage, as to_dict or another writer left them
StoredDicts ==
    [name : {"s"}, queue : {<<>>, <<"a.mp3", "b.mp3">>}, position : {0, 3},
     current_index : {0, 1}, shuffle : {FALSE}, shuffle_order : {<<>>},
     repeat : {"none", "queue"}, volume : {80, 150}, rate : {100, 10}]

\* the state of the daemon and of the start-up, which sessions do not touch
outside == <<daemon, runner, threads>>

\* state = session.to_dict()
ToDict ==
    /\ sess # NoSession
    /\ ser' = to_dict(sess)
    /\ UNCHANGED <<sess, outside>>

\* Session.from_dict(data)
FromDict ==
    /\ ser # NoDict
    /\ sess' = from_dict(ser)
    /\ UNCHANGED <<ser, outside>>

\* Session(name)
SessionNew ==
    /\ sess = NoSession
    /\ sess' = NewSession("s")
    /\ UNCHANGED <<ser, outside>>

\* Session.cmd_volume(level)
SessionVolume(level) ==
    /\ sess # NoSession
    /\ LET v == Max(0, Min(100, level))
       IN  sess' = [sess EXCEPT !.volume = v, !.player_volume = Max(0, Min(100, v))]
    /\ UNCHANGED <<ser, outside>>

\* Session.cmd_rate(speed)
SessionRate(speed) ==
    /\ sess # NoSession
    /\ LET r == Max(25, Min(400, speed))
       IN  sess' = [sess EXCEPT !.rate = r, !.player_rate = Max(25, Min(400, r))]
    /\ UNCHANGED <<ser, outside>>

\* Session.cmd_repeat(mode) with a mode RepeatMode accepts
SessionRepeat(mode) ==
    /\ sess # NoSession
    /\ sess' = [sess EXCEPT !.repeat = RepeatMode(mode)]
    /\ UNCHANGED <<ser, outside>>

\* the queue, the current index and the shuffle order as the queue
\* commands may leave them
SessionQueue(q, i, so) ==
    /\ sess # NoSession
    /\ sess' = [sess EXCEPT !.queue = q, !.queue_position = i,
                            !.shuffle = so # <<>>, !.shuffle_order = so]
    /\ UNCHANGED <<ser, outside>>

InitSession ==
    /\ InitDaemon /\ files \in StoredPlaylists /\ InitRunner
    /\ sess = NoSession
    /\ ser \in {NoDict} \cup StoredDicts

NextSession ==
    \/ ToDict
    \/ FromDict
    \/ SessionNew
    \/ \E level \in Levels : SessionVolume(level)
    \/ \E speed \in Speeds : SessionRate(speed)
    \/ \E mode \in {"none", "queue", "track"} : SessionRepeat(mode)
    \/ \E q \in {<<>>, <<"a.mp3", "b.mp3">>} :
          \E i \in 0..Max(0, Len(q) - 1) :
             \E so \in {<<>>} \cup (IF q = <<>> THEN {} ELSE {<<1, 0>>}) :
                SessionQueue(q, i, so)

SpecSession == InitSession /\ [][NextSession]_vars

(***************************************************************************)
(* A client whose requests make handlers raise.                            *)
(***************************************************************************)
\* request lines whose handlers raise in some state, among lines that set
\* those states up
FailingLines ==
    {line \in Lines :
        \/ line.cmd \in {"play", "next", "prev", "pause"}
        \/ line.cmd = "add" /\ line.s \in Unsupported
        \/ line.cmd \in {"jump", "remove"} /\ line.i \in {<<>>, <<-1>>, <<0>>, <<1>>}
        \/ line.cmd = "move" /\ line.i \in {<<0, 1>>, <<0, 2>>}
        \/ line.cmd = "load" /\ line.s = "q"
        \/ line.cmd = "repeat" /\ line.s \in {"all", "queue"}}

NextFailing ==
    \/ \E line \in FailingLines : Command(line)
    \/ NaturalEnd
    \/ Resume
    \/ \E frames \in 1..TotalFrames : AudioCallback(frames)

SpecFailing == Init /\ [][NextFailing]_vars

(***************************************************************************)
(* One daemon process from its pid file to the end of _Runner.run.         *)
(* proc[1] is "checked" (past _is_running), "pid" (daemon.pid written),    *)
(* "handlers" (signal handlers installed), "serving" (past Daemon.start),  *)
(* "signalled" (_shutdown is set), "cancelling" (Daemon.stop is awaiting   *)
(* the tasks it cancelled), "stopped" (run has returned), "killed" (ended  *)
(* by the signal); "handlers_sig" is "handlers" with _shutdown set.        *)
(***************************************************************************)
\* the event loop of process 1 runs its tasks
Looping == proc[1] \in {"serving", "signalled"}

\* lines 666-668: loop.add_signal_handler for SIGTERM and SIGINT
InstallHandlers ==
    /\ At(1, "pid", "handlers")
    /\ UNCHANGED <<pid_file, pipes>>

\* Daemon.start, with _shutdown set or not
StartServing ==
    /\ \/ At(1, "handlers", "serving")
       \/ At(1, "handlers_sig", "signalled")
    /\ pipes' = 1
    /\ UNCHANGED pid_file

\* SIGTERM or SIGINT reaches the process: _shutdown.set() once the handlers
\* are installed; before that SIGTERM ends the process and SIGINT raises
\* KeyboardInterrupt in run, which main swallows
Signal ==
    /\ \/ At(1, "pid", "killed")
       \/ At(1, "handlers", "handlers_sig")
       \/ At(1, "serving", "signalled")
    /\ UNCHANGED <<pid_file, pipes>>

\* _read_loop dispatches a request line; shutdown signals the process
ServeCommand(line) ==
    /\ Looping
    /\ ctl = "idle"
    /\ ~Grows(line)
    /\ \E R \in Dispatch(Cur, files, line) :
          /\ Set(R.d)
          /\ resp' = R.r
          /\ emitted' = R.d.out
    /\ ctl' = "put"
    /\ proc' = IF line.cmd = "shutdown" THEN [proc EXCEPT ![1] = "signalled"] ELSE proc
    /\ UNCHANGED <<pending_ends, pipe, gen, pid_file, pipes, store, threads>>

\* a posted _handle_track_end runs; Daemon.stop does not cancel these tasks,
\* so one that is waiting runs while stop awaits the tasks it did cancel
ServeTrackEnd == (Looping \/ proc[1] = "cancelling") /\ NaturalEnd

ServeResume == (Looping \/ proc[1] = "cancelling") /\ Resume

\* the device thread runs until the process ends
ServeAudio(frames) ==
    /\ Looping \/ proc[1] = "cancelling"
    /\ AudioCallback(frames)

\* Daemon.stop up to its first await: _running = False, player.stop(), and
\* the read, write and position tasks are cancelled
StopBegins ==
    /\ proc[1] = "signalled"
    /\ proc' = [proc EXCEPT ![1] = "cancelling"]
    /\ Set(Player_stop(Cur))
    /\ UNCHANGED <<pending_ends, resp, emitted, ctl, pipe, gen, pid_file, pipes, store, threads>>

\* the cancelled tasks have ended: the pipes that exist are unlinked, stop
\* returns and run unlinks daemon.pid
StopEnds ==
    /\ At(1, "cancelling", "stopped")
    /\ pipes' = 0
    /\ pid_file' = 0

StopLines ==
    {Line("object", "1", c, "", <<>>, FALSE) : c \in {"pause", "next", "stop", "shutdown"}}
    \cup {Line("object", "1", "play", u, <<>>, FALSE) : u \in {"a.mp3", "x.mp3"}}
    \cup {Line("object", "1", "repeat", "queue", <<>>, FALSE)}

InitStop ==
    /\ InitDaemon /\ files \in StoredPlaylists /\ InitStore
    /\ proc = [p \in Procs |-> IF p = 1 THEN "checked" ELSE "off"]
    /\ pid_file = 0
    /\ pipes = 0

NextStop ==
    \/ WritePid(1)
    \/ InstallHandlers
    \/ StartServing
    \/ Signal
    \/ \E line \in StopLines : ServeCommand(line)
    \/ ServeTrackEnd
    \/ ServeResume
    \/ \E frames \in 1..TotalFrames : ServeAudio(frames)
    \/ StopBegins
    \/ StopEnds

SpecStop == InitStop /\ [][NextStop]_vars

(***************************************************************************)
(* A client that enqueues files by add, play <file> and load, with        *)
(* extensions inside and outside the recognised set.                       *)
(***************************************************************************)
EnqueueLines ==
    {Line("object", "1", c, u, <<>>, FALSE)
        : c \in {"add", "play"}, u \in {"a.mp3"} \cup Upper \cup Unsupported}
    \cup {Line("object", "1", "load", "p", <<>>, FALSE),
          Line("object", "1", "clear", "", <<>>, FALSE),
          Line("object", "1", "remove", "", <<0>>, FALSE)}
    \cup {Line("object", "1", "shuffle", "", <<>>, b) : b \in BOOLEAN}

NextEnqueue ==
    \/ \E line \in EnqueueLines : Command(line)
    \/ NaturalEnd
    \/ Resume
    \/ \E frames \in 1..TotalFrames : AudioCallback(frames)

SpecEnqueue == Init /\ [][NextEnqueue]_vars

(***************************************************************************)
(* A client that builds a queue of up to MoveQueue tracks, selects a       *)
(* current track and moves tracks around.                                  *)
(***************************************************************************)
MoveQueue == 3

MoveLines ==
    {Line("object", "1", "add", u, <<>>, FALSE) : u \in Good \cup Upper}
    \cup {Line("object", "1", "jump", "", <<i>>, FALSE) : i \in 0..(MoveQueue - 1)}
    \cup {Line("object", "1", "move", "", <<i, j>>, FALSE) : i, j \in -1..MoveQueue}
    \cup {Line("object", "1", "shuffle", "", <<>>, b) : b \in BOOLEAN}

\* _read_loop dispatches one line; the queue grows up to MoveQueue tracks
QueueCommand(line) ==
    /\ ctl = "idle"
    /\ (line.cmd \in {"add", "play"} /\ line.s # "") => Len(queue) < MoveQueue
    /\ \E R \in Dispatch(Cur, files, line) :
          /\ Set(R.d)
          /\ resp' = R.r
          /\ emitted' = R.d.out
    /\ ctl' = "put"
    /\ UNCHANGED <<pending_ends, other, pipe>>

NextMove ==
    \/ \E line \in MoveLines : QueueCommand(line)
    \/ Resume

SpecMove == Init /\ [][NextMove]_vars

(***************************************************************************)
(* A client that queues, plays, removes and skips tracks with shuffle on   *)
(* and off.  remove of the current track when it is the last of the queue  *)
(* leaves queue_pos past the end, an index that shuffle_order never holds. *)
(***************************************************************************)
ShuffleLines ==
    {Line("object", "1", "add", u, <<>>, FALSE) : u \in {"a.mp3"} \cup Upper}
    \cup {Line("object", "1", "play", "b.mp3", <<>>, FALSE)}
    \cup {Line("object", "1", c, "", <<i>>, FALSE)
            : c \in {"jump", "remove"}, i \in 0..(MoveQueue - 1)}
    \cup {Line("object", "1", c, "", <<>>, FALSE) : c \in {"next", "prev"}}
    \cup {Line("object", "1", "shuffle", "", <<>>, b) : b \in BOOLEAN}
    \cup {Line("object", "1", "repeat", m, <<>>, FALSE) : m \in {"none", "queue"}}

NextShuffle ==
    \/ \E line \in ShuffleLines : QueueCommand(line)
    \/ Resume

SpecShuffle == Init /\ [][NextShuffle]_vars

(***************************************************************************)
(* A client that queues up to MoveQueue tracks, one of them a missing      *)
(* file, selects a track, enables shuffle and skips through the queue      *)
(* with repeat=none.                                                       *)
(***************************************************************************)
TourLines ==
    {Line("object", "1", "add", u, <<>>, FALSE) : u \in Good \cup Missing}
    \cup {Line("object", "1", "jump", "", <<i>>, FALSE) : i \in 0..(MoveQueue - 1)}
    \cup {Line("object", "1", "next", "", <<>>, FALSE)}
    \cup {Line("object", "1", "shuffle", "", <<>>, b) : b \in BOOLEAN}

NextTour ==
    \/ \E line \in TourLines : QueueCommand(line)
    \/ Resume

SpecTour == Init /\ [][NextTour]_vars

(***************************************************************************)
(* The engine's mutex.  The control thread runs one method of Player at a  *)
(* time and the device thread runs _audio_generator; each takes one        *)
(* statement at a time: an acquire or release of _lock, a read or a write  *)
(* of one of _samples, _position, _active, _playing, or a start or close   *)
(* of the device.                                                          *)
(***************************************************************************)
Acq == [a |-> "acq", f |-> "", v |-> ""]
Rel == [a |-> "rel", f |-> "", v |-> ""]
Rd(f) == [a |-> "rd", f |-> f, v |-> ""]
Wr(f, v) == [a |-> "wr", f |-> f, v |-> v]
StartDevice == [a |-> "start", f |-> "", v |-> ""]
StopDevice == [a |-> "stop", f |-> "", v |-> ""]

Methods == {"load", "play", "pause", "unpause", "stop", "is_playing", "is_paused",
            "get_position", "seek"}

\* the statements of each method, in order (player.py 77-147); load is of
\* a.mp3 and seek is to the start
Body(m) ==
    CASE m = "load"         -> <<StopDevice, Wr("samples", "a.mp3"), Wr("position", 0)>>
      [] m = "play"         -> <<Rd("samples"), Acq, Wr("position", 0), Wr("playing", TRUE),
                                 Wr("active", TRUE), Rel, StartDevice>>
      [] m = "pause"        -> <<Acq, Wr("playing", FALSE), Rel>>
      [] m = "unpause"      -> <<Rd("samples"), Acq, Wr("playing", TRUE),
                                 Wr("active", TRUE), Rel, StartDevice>>
      [] m = "stop"         -> <<Acq, Wr("playing", FALSE), Wr("active", FALSE), Rel,
                                 StopDevice, Wr("position", 0)>>
      [] m = "is_playing"   -> <<Rd("playing")>>
      [] m = "is_paused"    -> <<Rd("active"), Rd("playing")>>
      [] m = "get_position" -> <<Rd("position")>>
      [] m = "seek"         -> <<Rd("samples"), Acq, Wr("position", 0), Rel>>

\* the statement the control thread is at
ControlAt == Body(cth.m)[cth.k]

\* the statement of _audio_generator and _read_chunk the device thread is
\* at (player.py 188-248), by position
AudioAt ==
    CASE ath = "while"     -> Rd("active")
      [] ath = "lock_flag" -> Acq
      [] ath = "flag"      -> Rd("playing")
      [] ath = "unlock_flag" -> Rel
      [] ath = "unlock_silence" -> Rel
      [] ath = "none_test" -> Rd("samples")
      [] ath = "chunk_test" -> Rd("samples")
      [] ath = "lock_chunk" -> Acq
      [] ath = "chunk"     -> Rd("position")
      [] ath = "copy"      -> Rd("samples")
      [] ath = "cursor"    -> Wr("position", ReadChunk(Cur, TotalFrames).position)
      [] ath = "unlock_chunk" -> Rel
      [] ath = "unlock_empty" -> Rel
      [] ath = "lock_end"  -> Acq
      [] ath = "end_active" -> Wr("active", FALSE)
      [] ath = "end_playing" -> Wr("playing", FALSE)
      [] ath = "unlock_end" -> Rel
      [] OTHER             -> [a |-> "", f |-> "", v |-> ""]

\* the fields after the write s
Written(s) ==
    CASE s.f = "samples"  -> [Cur EXCEPT !.p_samples = s.v]
      [] s.f = "position" -> [Cur EXCEPT !.p_position = s.v]
      [] s.f = "active"   -> [Cur EXCEPT !.p_active = s.v]
      [] s.f = "playing"  -> [Cur EXCEPT !.p_playing = s.v]

\* the control thread enters a method of Player
ControlCall(m) ==
    /\ cth = Outside
    /\ cth' = [m |-> m, k |-> 1]
    /\ UNCHANGED <<session, player, pending_ends, files, resp, emitted, ctl, pipe,
                   gen, runner, store, mutex, ath, loop>>

\* what no statement of Player touches
beside == <<session, p_uri, p_volume, p_rate, files, resp, emitted, ctl, pipe,
            gen, runner, store, loop>>

\* the control thread takes the statement it is at.  play, unpause and seek
\* return at once when _samples is None; _start_device does nothing when a
\* device exists; device.close() returns once the device thread is out of
\* the generator.
ControlStep ==
    /\ cth # Outside
    /\ LET s == ControlAt
           returns == \/ cth.k = Len(Body(cth.m))
                      \/ s.a = "rd" /\ s.f = "samples" /\ p_samples = ""
       IN  /\ CASE s.a = "acq" ->
                     /\ mutex = "" /\ mutex' = "control"
                     /\ UNCHANGED <<player, ath>>
                [] s.a = "rel" ->
                     mutex' = "" /\ UNCHANGED <<player, ath>>
                [] s.a = "rd" ->
                     UNCHANGED <<mutex, player, ath>>
                [] s.a = "wr" ->
                     /\ p_samples' = Written(s).p_samples
                     /\ p_position' = Written(s).p_position
                     /\ p_active' = Written(s).p_active
                     /\ p_playing' = Written(s).p_playing
                     /\ UNCHANGED <<p_device, mutex, ath>>
                [] s.a = "start" ->
                     /\ IF p_device = "none"
                        THEN p_device' = "running" /\ ath' = "yield"
                        ELSE UNCHANGED <<p_device, ath>>
                     /\ UNCHANGED <<p_samples, p_position, p_active, p_playing, mutex>>
                [] s.a = "stop" ->
                     /\ ath \in {"off", "yield", "returned"}
                     /\ p_device' = "none"
                     /\ ath' = "off"
                     /\ UNCHANGED <<p_samples, p_position, p_active, p_playing, mutex>>
           /\ cth' = IF returns THEN Outside ELSE [cth EXCEPT !.k = @ + 1]
    /\ UNCHANGED <<beside, pending_ends>>

\* the device asks the generator for the next period
Pull ==
    /\ p_device = "running"
    /\ ath = "yield"
    /\ ath' = "while"
    /\ UNCHANGED <<beside, pending_ends, p_samples, p_position, p_active, p_playing,
                   p_device, mutex, cth>>

\* the position after the statement at ath
AudioNext ==
    CASE ath = "while"       -> IF p_active THEN "lock_flag" ELSE "returned"
      [] ath = "lock_flag"   -> "flag"
      [] ath = "flag"        -> IF p_playing THEN "unlock_flag" ELSE "unlock_silence"
      [] ath = "unlock_flag" -> "none_test"
      [] ath = "unlock_silence" -> "yield"
      [] ath = "none_test"   -> IF p_samples = "" THEN "returned" ELSE "chunk_test"
      [] ath = "chunk_test"  -> IF p_samples = "" THEN "lock_end" ELSE "lock_chunk"
      [] ath = "lock_chunk"  -> "chunk"
      [] ath = "chunk"       -> "copy"
      [] ath = "copy"        -> "cursor"
      [] ath = "cursor"      -> IF ReadChunk(Cur, TotalFrames).got = 0
                                THEN "unlock_empty" ELSE "unlock_chunk"
      [] ath = "unlock_chunk" -> "yield"
      [] ath = "unlock_empty" -> "lock_end"
      [] ath = "lock_end"    -> "end_active"
      [] ath = "end_active"  -> "end_playing"
      [] ath = "end_playing" -> "unlock_end"
      [] ath = "unlock_end"  -> "callback"
      [] ath = "callback"    -> "returned"

\* the device thread takes the statement it is at; at "callback" it invokes
\* _end_callback, whose create_task posts the task or raises
AudioStep ==
    /\ ath \notin {"off", "yield", "returned"}
    /\ LET s == AudioAt
       IN  CASE s.a = "acq" ->
                  /\ mutex = "" /\ mutex' = "audio"
                  /\ UNCHANGED <<p_samples, p_position, p_active, p_playing>>
             [] s.a = "rel" ->
                  mutex' = "" /\ UNCHANGED <<p_samples, p_position, p_active, p_playing>>
             [] s.a = "wr" ->
                  /\ p_samples' = Written(s).p_samples
                  /\ p_position' = Written(s).p_position
                  /\ p_active' = Written(s).p_active
                  /\ p_playing' = Written(s).p_playing
                  /\ UNCHANGED mutex
             [] OTHER ->
                  UNCHANGED <<mutex, p_samples, p_position, p_active, p_playing>>
    /\ ath' = AudioNext
    /\ p_device' = IF AudioNext = "returned" THEN "done" ELSE p_device
    /\ IF ath = "callback"
       THEN \/ pending_ends < MaxPendingEnds /\ pending_ends' = pending_ends + 1
            \/ pending_ends' = pending_ends
       ELSE UNCHANGED pending_ends
    /\ UNCHANGED <<beside, cth>>

NextLock ==
    \/ \E m \in Methods : ControlCall(m)
    \/ ControlStep
    \/ Pull
    \/ AudioStep

SpecLock == Init /\ [][NextLock]_vars

(***************************************************************************)
(* The event loop.  The read task and the track-end tasks are coroutines   *)
(* of one loop: a task runs until it awaits something that is not ready.   *)
(* A handler is entered (it computes and mutates), hands its events to     *)
(* _emit one await after the other, and returns.                           *)
(***************************************************************************)
\* _emit as an await of _resp_queue.put: the caller waits while q is full
EmitSuspends_WhenFull(q) == Full(q)

\* _emit has the caller wait on a queue q: put_nowait returns or raises
\* QueueFull at once
EmitSuspends(q) == FALSE

LoopLines ==
    {Line("object", "1", c, "", <<>>, FALSE) : c \in {"next", "stop", "clear", "subscribe"}}
    \cup {Line("object", "1", c, "a.mp3", <<>>, FALSE) : c \in {"play", "add"}}
    \cup {Line("object", "1", "remove", "", <<0>>, FALSE)}
    \cup {Line("object", "1", "repeat", "queue", <<>>, FALSE)}

\* the executor has read a line: the read task calls _dispatch and the
\* handler runs up to its first await of _emit
HandlerBegins(line) ==
    /\ loop.running = "" /\ loop.read = "reading"
    /\ held = NoLine
    /\ ~Grows(line)
    /\ \E R \in Dispatch(Cur, files, line) :
          /\ Set(R.d)
          /\ resp' = R.r
          /\ loop' = [loop EXCEPT !.running = "read", !.read = "in", !.rev = R.d.out]
    /\ UNCHANGED <<pending_ends, emitted, ctl, pipe, gen, runner, store, mutex, cth, ath>>

\* the event loop starts a posted _handle_track_end
TrackEndBegins ==
    /\ loop.running = "" /\ loop.end = "no"
    /\ pending_ends > 0
    /\ pending_ends' = pending_ends - 1
    /\ \E d \in HandleTrackEnd(Cur) :
          /\ Set([d EXCEPT !.exc = ""])
          /\ loop' = [loop EXCEPT !.running = "end", !.end = "in", !.eev = d.out]
    /\ UNCHANGED <<resp, emitted, ctl, pipe, gen, runner, store, mutex, cth, ath>>

\* the events task t has still to emit
ToEmit(t) == IF t = "read" THEN loop.rev ELSE loop.eev

\* the handler of task t awaits _emit for its next event: the loop stays
\* with t unless _emit has it wait, which gives the loop to the other tasks
HandlerEmits(t) ==
    /\ loop.running = t /\ loop[t] = "in"
    /\ ToEmit(t) # <<>>
    /\ IF EmitSuspends(resp_queue)
       THEN loop' = [loop EXCEPT !.running = ""] /\ UNCHANGED resp_queue
       ELSE /\ resp_queue' = PutNowait(resp_queue, EventLine(Head(ToEmit(t)), 0, 0))
            /\ loop' = IF t = "read" THEN [loop EXCEPT !.rev = Tail(@)]
                       ELSE [loop EXCEPT !.eev = Tail(@)]
    /\ UNCHANGED <<session, player, pending_ends, files, resp, emitted, ctl,
                   held, wr, nresp, nev, taken, last_written,
                   gen, runner, store, mutex, cth, ath>>

\* the handler returns to _read_loop, which awaits _resp_queue.put: the
\* read task waits there while the queue is full
HandlerReturns ==
    /\ loop.running = "read" /\ loop.read = "in" /\ loop.rev = <<>>
    /\ LET P == IF resp.kind = "response" THEN QueuePut(resp_queue, ResponseLine(resp, 0))
                ELSE [queue |-> resp_queue, held |-> NoLine]
       IN  /\ resp_queue' = P.queue
           /\ held' = P.held
    /\ loop' = [loop EXCEPT !.running = "", !.read = "reading"]
    /\ UNCHANGED <<session, player, pending_ends, files, resp, emitted, ctl,
                   wr, nresp, nev, taken, last_written,
                   gen, runner, store, mutex, cth, ath>>

\* _handle_track_end returns and its task is done
TrackEndReturns ==
    /\ loop.running = "end" /\ loop.end = "in" /\ loop.eev = <<>>
    /\ loop' = [loop EXCEPT !.running = "", !.end = "no"]
    /\ UNCHANGED <<session, player, pending_ends, files, resp, emitted, ctl, pipe,
                   gen, runner, store, mutex, cth, ath>>

\* _write_loop takes a line from _resp_queue; the put the read task waits
\* in completes
WriterTakes ==
    /\ loop.running = ""
    /\ resp_queue # <<>>
    /\ LET rest == QueueGet(resp_queue).rest
       IN  IF held # NoLine
           THEN resp_queue' = Append(rest, held) /\ held' = NoLine
           ELSE resp_queue' = rest /\ UNCHANGED held
    /\ UNCHANGED <<session, player, pending_ends, files, resp, emitted, ctl,
                   wr, nresp, nev, taken, last_written, other>>

NextLoop ==
    \/ \E line \in LoopLines : HandlerBegins(line)
    \/ TrackEndBegins
    \/ \E t \in {"read", "end"} : HandlerEmits(t)
    \/ HandlerReturns
    \/ TrackEndReturns
    \/ WriterTakes
    \/ \E frames \in 1..TotalFrames : AudioCallback(frames)

SpecLoop == Init /\ [][NextLoop]_vars

(***************************************************************************)
(* Properties.                                                             *)
(***************************************************************************)
\* the control task has dispatched a cmd line and holds its response
Answered(cmd) == ctl = "put" /\ resp.kind = "response" /\ resp.cmd = cmd

\* s holds each of 0..n-1 exactly once
IsPermutation(s, n) ==
    /\ Len(s) = n
    /\ \A v \in 0..(n - 1) : \E k \in 1..n : s[k] = v

\* C1: in every reachable state 0 <= queue_pos < len(queue) when the queue
\* is non-empty, and queue_pos = 0 and state = stopped when it is empty.
C1_QueuePosInRange ==
    /\ queue # <<>> => 0 <= queue_pos /\ queue_pos < Len(queue)
    /\ queue = <<>> => queue_pos = 0 /\ state = "stopped"

\* C2: whenever shuffle is on and the queue has N tracks, shuffle_order
\* holds each index 0..N-1 exactly once.
C2_ShuffleOrderIsPermutation ==
    shuffle => IsPermutation(shuffle_order, Len(queue))

\* C3 as stated: after an add, remove or move command, shuffle_order is
\* empty if and only if the shuffle flag is false.
C3_EmptyIffShuffleOff ==
    (\E c \in {"add", "remove", "move"} : Answered(c) /\ resp.ok)
        => ((shuffle_order = <<>>) <=> ~shuffle)

\* C3 as amended: shuffle_order is empty whenever the shuffle flag is
\* false, and with a non-empty queue shuffle_order is empty only if the
\* shuffle flag is false.
C3_EmptyIffShuffleOffOrQueueEmpty ==
    /\ ~shuffle => shuffle_order = <<>>
    /\ queue # <<>> => ((shuffle_order = <<>>) <=> ~shuffle)

\* C3: an add has been answered with shuffle on and two tracks queued
C3_Witness ==
    Answered("add") /\ resp.ok /\ shuffle /\ Len(queue) = 2 /\ shuffle_order # <<>>

(***************************************************************************)
(* The outbound channel as _write_loop will see it: the line it holds,     *)
(* the lines queued, the response the read loop waits to put.              *)
(***************************************************************************)
One(line) == IF line = NoLine THEN <<>> ELSE <<line>>
Pending == One(wr) \o resp_queue \o One(held)
IsResponseLine(l) == l.type = "response"

\* C4: for every non-empty request line the daemon enqueues exactly one
\* response, whose id is the id of the request: once _dispatch is over the
\* read loop holds a response to put, with the id of the line.
C4_OneResponsePerLine ==
    ctl = "put" => /\ resp.kind = "response"
                   /\ resp.req # "" => resp.id = resp.req

\* C5: responses are written to the response pipe in the order in which
\* their commands were dispatched (serials are given in dispatch order).
C5_ResponsesWrittenInDispatchOrder ==
    [][last_written' # last_written => last_written' > last_written]_vars

\* C5: two responses have been written, with events emitted in between
C5_Witness == last_written >= 2 /\ nev >= 2

\* C6 as stated: the response to a command is placed on the outbound
\* channel before every event emitted by that command's handler.
C6_ResponseBeforeEvents ==
    \A i, j \in 1..Len(Pending) :
        (/\ Pending[i].type = "event"
         /\ Pending[j].type = "response"
         /\ Pending[i].by = Pending[j].n) => j < i

\* C6 as amended: every event a handler emitted that is on the outbound
\* channel is ahead of the response to that command, and none is left on
\* the channel once the write loop has taken that response.
C6_EventsBeforeResponse ==
    /\ \A i, j \in 1..Len(Pending) :
          (/\ Pending[i].type = "event"
           /\ Pending[j].type = "response"
           /\ Pending[i].by = Pending[j].n) => i < j
    /\ \A i \in 1..Len(resp_queue) :
          (resp_queue[i].type = "event" /\ resp_queue[i].by > 0)
              => resp_queue[i].by > taken

\* C6: an event of a handler and the response to its command are queued
C6_Witness ==
    \E i, j \in 1..Len(resp_queue) :
        /\ resp_queue[i].type = "event"
        /\ resp_queue[j].type = "response"
        /\ resp_queue[i].by = resp_queue[j].n

\* C7: the outbound queue never holds more than its capacity, and no
\* response is discarded because the queue is full: every response that
\* _dispatch returned and the write loop has not taken is queued, or is
\* the one the read loop holds or waits with, in dispatch order.
C7_BoundedAndResponsesKept ==
    /\ Len(resp_queue) <= MaxRespQueue
    /\ LET R == SelectSeq(resp_queue \o One(held), IsResponseLine)
           hand == IF ctl = "put" /\ resp.kind = "response" THEN <<nresp>> ELSE <<>>
       IN  [k \in 1..Len(R) |-> R[k].n] \o hand = [k \in 1..(nresp - taken) |-> taken + k]

\* C7: the read loop waits with a response because the queue is full
C7_Witness == held # NoLine /\ Full(resp_queue) /\ nev > Len(resp_queue)

\* C8 as stated: an event emitted while the outbound queue is full is
\* enqueued (the oldest queued event making room for it).
C8_NewestEventEnqueued ==
    [][(nev' = nev + 1 /\ Full(resp_queue))
        => \E i \in 1..Len(resp_queue') :
              resp_queue'[i].type = "event" /\ resp_queue'[i].n = nev']_vars

\* C8 as amended: an event emitted while the outbound queue is full is
\* discarded and the queued lines stay as they are (drop-newest).
C8_NewestEventDropped ==
    [][(nev' > nev /\ Full(resp_queue)) => resp_queue' = resp_queue]_vars

\* C8: the queue is full of lines older than the newest event, which is
\* not among them: it was dropped
C8_Witness ==
    /\ Full(resp_queue)
    /\ \E i \in 1..Len(resp_queue) : resp_queue[i].type = "event" /\ resp_queue[i].n < nev
    /\ \A i \in 1..Len(Pending) : ~(Pending[i].type = "event" /\ Pending[i].n = nev)

\* the step in which the control task dispatches a cmd line
Dispatches(cmd) == ctl = "idle" /\ ctl' = "put" /\ resp'.cmd = cmd

\* the current track is the last one in play order
AtEndOfOrder ==
    IF shuffle
    THEN shuffle_order # <<>> /\ IndexOf(shuffle_order, queue_pos) = Len(shuffle_order) - 1
    ELSE queue # <<>> /\ queue_pos = Len(queue) - 1

\* the current track is the first one in play order
AtStartOfOrder ==
    IF shuffle
    THEN shuffle_order # <<>> /\ IndexOf(shuffle_order, queue_pos) = 0
    ELSE queue # <<>> /\ queue_pos = 0

\* the index that is last in play order
LastInOrder == IF shuffle THEN shuffle_order[Len(shuffle_order)] ELSE Len(queue) - 1

\* C9: next at the last track in play order with repeat=none returns a
\* success response with data.error "End of queue", emits no event and
\* leaves the session and the engine unchanged.
C9_NextAtEndOfQueue ==
    [][(Dispatches("next") /\ AtEndOfOrder /\ repeat = "none")
        => /\ resp'.kind = "response" /\ resp'.ok
           /\ resp'.key = "error" /\ resp'.str = "End of queue"
           /\ emitted' = <<>>
           /\ UNCHANGED <<session, player>>]_vars

\* C9: next has been answered "End of queue" in shuffle mode at a track
\* that is not the last of the queue
C9_Witness ==
    /\ Answered("next") /\ resp.str = "End of queue"
    /\ repeat = "none" /\ shuffle /\ Len(queue) = 2 /\ queue_pos = 0
    /\ shuffle_order = <<1, 0>>

\* the response data.error "Start of queue" with queue_pos and the
\* playback state as they were
StartOfQueue ==
    /\ resp'.kind = "response" /\ resp'.ok
    /\ resp'.key = "error" /\ resp'.str = "Start of queue"
    /\ UNCHANGED <<queue_pos, state>>

\* C10 as stated: prev at the first track in play order returns
\* data.error "Start of queue" and leaves queue_pos and the playback state
\* unchanged with repeat=none, and moves to the last track in play order
\* with repeat=queue.
C10_PrevAtStartOfQueue ==
    [][(Dispatches("prev") /\ AtStartOfOrder)
        => /\ repeat = "none" => StartOfQueue
           /\ repeat = "queue" => queue_pos' = LastInOrder]_vars

\* C10 as amended: with repeat=queue prev moves to the last track in play
\* order and plays it when that track can be loaded.
C10_PrevAtStartOfQueueLoadable ==
    [][(Dispatches("prev") /\ AtStartOfOrder)
        => /\ repeat = "none" => StartOfQueue
           /\ (/\ repeat = "queue"
               /\ InRange(queue, LastInOrder)
               /\ Get(queue, LastInOrder) \in Good)
              => /\ queue_pos' = LastInOrder
                 /\ state' = "playing"
                 /\ resp'.ok /\ resp'.key = "queue_position"
                 /\ resp'.num = LastInOrder]_vars

\* C10: prev has wrapped to the last track of the shuffle order
C10_Witness ==
    /\ Answered("prev") /\ resp.ok /\ resp.key = "queue_position"
    /\ repeat = "queue" /\ shuffle /\ shuffle_order = <<1, 0>> /\ queue_pos = 0
    /\ state = "playing"

\* the indices a remove command can name in the current queue
QueueIndices == 0..(Len(queue) - 1)

\* the engine is stopped: not active, not playing, no device
EngineStopped(d) == ~d.p_active /\ ~d.p_playing /\ d.p_device = "none"

\* the engine plays uri from its start
EnginePlays(d, uri) == d.p_uri = uri /\ d.p_samples = uri /\ d.p_active /\ d.p_playing

\* remove of an earlier track: queue_pos is decremented and names the same
\* track as before
RemoveEarlier(i, d) ==
    i < queue_pos =>
        /\ d.queue_pos = queue_pos - 1
        /\ InRange(queue, queue_pos) => Get(d.queue, d.queue_pos) = Get(queue, queue_pos)

\* remove of the playing track when it is the last of the queue: the
\* engine is stopped and state becomes stopped
RemoveLastPlaying(i, d) ==
    (i = queue_pos /\ state = "playing" /\ i = Len(queue) - 1) =>
        d.exc = "" /\ d.state = "stopped" /\ EngineStopped(d)

\* C11 as stated: removing the playing track loads and plays the track now
\* at its index, with queue_pos and state as they were, or stops when
\* there is none; removing an earlier track decrements queue_pos.
C11_RemoveCurrentPlaysNext ==
    \A i \in QueueIndices : \A d \in CmdRemove(Cur, <<i>>) :
        /\ (i = queue_pos /\ state = "playing" /\ i < Len(queue) - 1) =>
              /\ d.exc = "" /\ d.queue_pos = i /\ d.state = "playing"
              /\ EnginePlays(d, queue[i + 2])
        /\ RemoveLastPlaying(i, d)
        /\ RemoveEarlier(i, d)

\* C11 as amended: the track now at the index is loaded and played when it
\* can be loaded.
C11_RemoveCurrentPlaysNextLoadable ==
    \A i \in QueueIndices : \A d \in CmdRemove(Cur, <<i>>) :
        /\ (/\ i = queue_pos /\ state = "playing" /\ i < Len(queue) - 1
            /\ queue[i + 2] \in Good) =>
              /\ d.exc = "" /\ d.queue_pos = i /\ d.state = "playing"
              /\ EnginePlays(d, queue[i + 2])
        /\ RemoveLastPlaying(i, d)
        /\ RemoveEarlier(i, d)

\* C11: a remove of the playing track has been answered and the track that
\* took its place is playing
C11_Witness ==
    /\ Answered("remove") /\ resp.ok /\ state = "playing" /\ queue # <<>>
    /\ \E k \in 1..Len(emitted) :
          /\ emitted[k].event = "track_changed"
          /\ emitted[k].queue_position = queue_pos
          /\ emitted[k].track = Get(queue, queue_pos)

\* the events named name among evs
EventsNamed(evs, name) == {k \in 1..Len(evs) : evs[k].event = name}

\* the current track exists and its file cannot be loaded
CurrentFails ==
    /\ queue # <<>> /\ 0 <= queue_pos /\ queue_pos < Len(queue)
    /\ queue[queue_pos + 1] \notin Good

\* C12: when loading the current track fails, _play_current returns after
\* emitting one error event for that track and auto-advancing, the retries
\* being bounded by the queue length in every repeat mode; when every track
\* of the queue fails it ends with state = stopped and exactly one
\* queue_finished event.
C12_FailedLoadsAreBounded ==
    CurrentFails =>
        \A d \in PlayCurrent(Cur) :
            /\ d.exc = ""
            /\ Cardinality({k \in EventsNamed(d.out, "error") :
                              d.out[k].track = queue[queue_pos + 1]}) = 1
            /\ Cardinality(EventsNamed(d.out, "error")) <= Len(queue)
            /\ (\A k \in 1..Len(queue) : queue[k] \notin Good)
                  => /\ d.state = "stopped"
                     /\ Cardinality(EventsNamed(d.out, "queue_finished")) = 1

\* the daemons whose loops are running
Serving == {p \in Procs : proc[p] = "serving"}

\* C13: for one runtime directory at most one daemon is running at any
\* time, and the pid file and the pipes of the running daemon are its own:
\* no daemon that started while it was alive has replaced them.
C13_AtMostOneDaemon ==
    /\ Cardinality(Serving) <= 1
    /\ \A p \in Serving : pid_file = p /\ pipes = p

\* the current track exists and can be loaded
CurrentLoads ==
    /\ queue # <<>> /\ 0 <= queue_pos /\ queue_pos < Len(queue)
    /\ queue[queue_pos + 1] \in Good

\* the handler left the playback state as it was and emitted nothing
Untouched(d) == d.exc = "" /\ d.state = state /\ d.out = <<>>

\* the rows of the transport table that do not load a track
TransportRows ==
    /\ \A d \in CmdPlay(Cur, "") :
          /\ state = "paused" => d.state = "playing"
          /\ (state = "playing" \/ (state = "stopped" /\ queue = <<>>)) => Untouched(d)
    /\ \A d \in CmdPause(Cur) :
          /\ state = "playing" => d.state = "paused"
          /\ state # "playing" => Untouched(d)
    /\ \A d \in CmdStop(Cur) \cup CmdClear(Cur) : d.state = "stopped"

\* C14 as stated: the playback state is initially stopped and follows the
\* transport table; play without file goes stopped -> playing whenever the
\* queue is non-empty.
C14_TransportTable ==
    /\ state = "stopped"
    /\ [](/\ TransportRows
          /\ \A d \in CmdPlay(Cur, "") :
                (state = "stopped" /\ queue # <<>>) => d.state = "playing")

\* C14 as amended: play without file goes stopped -> playing when the
\* current track can be loaded.
C14_TransportTableLoadable ==
    /\ state = "stopped"
    /\ [](/\ TransportRows
          /\ \A d \in CmdPlay(Cur, "") :
                (state = "stopped" /\ CurrentLoads)
                    => d.exc = "" /\ d.state = "playing")

\* C14: play without file has been answered from stopped with a queue, and
\* the state is playing
C14_Witness ==
    /\ Answered("play") /\ resp.ok /\ resp.str = "playing"
    /\ state = "playing" /\ queue # <<>>
    /\ emitted # <<>> /\ emitted[1].event = "track_changed"

\* clamp(x, lo, hi) as the specification writes it
Clamp(x, lo, hi) == IF x < lo THEN lo ELSE IF x > hi THEN hi ELSE x

\* C15: every requested level v gives volume clamp(v, 0, 100) and every
\* requested speed r gives rate clamp(r, 0.25, 4.0), in the session, in the
\* engine and in the response; in every reachable state the session's
\* volume and rate are within these ranges and equal to the engine's.
C15_VolumeAndRateClamped ==
    /\ volume \in 0..100 /\ volume = p_volume
    /\ rate \in 25..400 /\ rate = p_rate
    /\ \A v \in Levels \cup {0, 100} : \A d \in CmdVolume(Cur, <<v>>) :
          /\ d.exc = ""
          /\ d.volume = Clamp(v, 0, 100)
          /\ d.p_volume = Clamp(v, 0, 100)
          /\ d.ret.key = "volume" /\ d.ret.num = Clamp(v, 0, 100)
    /\ \A r \in Speeds \cup {25, 400} : \A d \in CmdRate(Cur, <<r>>) :
          /\ d.exc = ""
          /\ d.rate = Clamp(r, 25, 400)
          /\ d.p_rate = Clamp(r, 25, 400)
          /\ d.ret.key = "rate" /\ d.ret.num = Clamp(r, 25, 400)

\* a level above 100 and then a speed below 0.25 have been asked for
C15_Witness ==
    /\ Answered("rate") /\ resp.ok /\ resp.num = 25
    /\ rate = 25 /\ p_rate = 25
    /\ volume = 100 /\ p_volume = 100

\* positions in units of 1/SubFrame frame given to seek and play, and the
\* frames one read may ask for
Positions == -3..9
ReadSizes == 0..10

\* C16: in every reachable engine state, whatever the interleaving of the
\* device thread's reads with load, play, seek and stop on the control
\* task, 0 <= cursor <= total_frames; seek(s) and play(s) on a buffer with
\* frames set the cursor to clamp(floor(s * SAMPLE_RATE), 0, total_frames-1);
\* a read of N frames returns min(N, total_frames - cursor) frames and
\* advances the cursor by exactly that amount.
C16_CursorInBuffer ==
    LET total == Frames(p_samples)
    IN  /\ 0 <= p_position /\ p_position <= total
        /\ \A s \in Positions :
              LET seeked == Player_seek(Cur, ToFrame(s))
                  played == Player_play(Cur, ToFrame(s))
              IN  IF total > 0
                  THEN /\ seeked.p_position = Clamp(s \div SubFrame, 0, total - 1)
                       /\ played.p_position = Clamp(s \div SubFrame, 0, total - 1)
                  ELSE seeked.p_position = 0 /\ played.p_position = 0
        /\ \A N \in ReadSizes :
              LET R == ReadChunk(Cur, N)
              IN  /\ R.got = Min(N, total - p_position)
                  /\ R.position = p_position + R.got

\* after a seek into the longer track, a read has returned fewer frames
\* than it asked for and left the cursor at the end of the buffer
C16_Witness ==
    /\ Answered("seek") /\ resp.ok
    /\ p_samples \in Long
    /\ gen.pc = "yield" /\ gen.got > 0
    /\ gen.got < SourceFrames(gen.frames, p_rate)
    /\ p_position = Frames(p_samples)

\* the device thread invokes the end-callback in this step
EndCallbackInvoked == gen.pc = "end" /\ gen'.pc = "done" /\ gen'.calls = gen.calls + 1

\* C17: the end-callback is invoked at the moment the audio callback finds
\* the buffer exhausted while not paused: whenever it is invoked the engine
\* is playing (not paused, not stopped), the cursor is at the end of the
\* buffer, and this playback has not invoked it before.
C17_EndCallbackOnceNotPaused ==
    [][EndCallbackInvoked =>
          /\ p_active /\ p_playing
          /\ state # "paused"
          /\ p_position >= Frames(p_samples)
          /\ gen.calls = 0]_vars

\* the forms of pos that hold a number, and the target each resolves to
SeekKinds == {"number", "+", "-", "string"}
SeekTarget(kind, t) ==
    Max(0, CASE kind = "+" -> get_position(Cur) + t
             [] kind = "-" -> get_position(Cur) - t
             [] OTHER      -> t)

\* seek answers with the target and leaves the rest of the session alone
SeekAnswers(kind, t, d) ==
    /\ d.exc = "" /\ d.out = <<>>
    /\ d.ret.key = "position" /\ d.ret.num = SeekTarget(kind, t)
    /\ d.state = state /\ d.queue = queue /\ d.queue_pos = queue_pos

\* C20: seek resolves its argument inside the handler (p gives p, "+d"
\* gives current position + d, "-d" gives current position - d), clamps
\* the target to be >= 0, repositions the engine cursor to the target and
\* answers with position = the clamped target.
C20_SeekRepositionsCursor ==
    \A kind \in SeekKinds : \A t \in Times \cup {-1} :
        \A d \in CmdSeek(Cur, kind, t) :
            /\ SeekAnswers(kind, t, d)
            /\ d.p_position = SeekTarget(kind, t) \div SubFrame

\* C20 as the code has it: the response carries the clamped target, and the
\* engine cursor goes to the frame of the target brought down to the last
\* frame of the buffer; with no buffer loaded the cursor is not moved.
C20_SeekRepositionsCursorInBuffer ==
    \A kind \in SeekKinds : \A t \in Times \cup {-1} :
        \A d \in CmdSeek(Cur, kind, t) :
            /\ SeekAnswers(kind, t, d)
            /\ d.p_position =
                  IF p_samples = "" THEN p_position
                  ELSE Max(0, Min(SeekTarget(kind, t) \div SubFrame,
                                  Frames(p_samples) - 1))

\* a seek beyond the end of the longer track has been answered
C20_Witness ==
    /\ Answered("seek") /\ resp.ok /\ resp.key = "position"
    /\ p_samples \in Long
    /\ resp.num > Frames(p_samples) * SubFrame
    /\ p_position = Frames(p_samples) - 1

(***************************************************************************)
(* Playlists: a client that fills the queue, saves it under the name p in  *)
(* each format and loads it again.                                         *)
(***************************************************************************)
\* the formats save is asked for; "" when the argument is absent
Formats == {"json", "m3u", "txt"}

PlaylistLines ==
    {Line("object", "1", c, "", <<>>, FALSE) : c \in {"clear", "play", "stop"}}
    \cup {Line("object", "1", "add", u, <<>>, FALSE) : u \in {"a.mp3", "b.mp3"} \cup Hashed}
    \cup {Line("object", "1", "save", f, <<>>, FALSE) : f \in Formats \cup {"", "pls"}}
    \cup {Line("object", "1", "load", n, <<>>, FALSE) : n \in {"p", "q"}}

\* the playlist directory is empty at start-up, or holds p.m3u
InitPlaylists ==
    /\ InitDaemon /\ InitRunner /\ InitStore
    /\ files \in StoredPlaylists \cup {[e \in {".json", ".m3u", ".txt"} |-> NoFile]}

NextPlaylists ==
    \/ \E line \in PlaylistLines : Command(line)
    \/ Resume

SpecPlaylists == InitPlaylists /\ [][NextPlaylists]_vars

\* load {name: p} dispatched right after the handler outcome d
LoadAfter(d) ==
    Handler([d EXCEPT !.ret = NoRet], d.files, Line("object", "1", "load", "p", <<>>, FALSE))

\* C18: for every queue Q, every format f in {json, m3u, txt} and every
\* prior content of the playlist directory, save(p, f) followed by load(p)
\* yields queue = Q with track_count = len(Q), queue_pos = 0 and
\* state = stopped.
C18_SaveThenLoadRestoresQueue ==
    \A f \in Formats : \A saved \in CmdSave(Cur, "p", f) :
        /\ saved.exc = ""
        /\ \A loaded \in LoadAfter(saved) :
              /\ loaded.exc = ""
              /\ loaded.queue = queue
              /\ loaded.ret.key = "track_count" /\ loaded.ret.num = Len(queue)
              /\ loaded.queue_pos = 0
              /\ loaded.state = "stopped"

\* the persisted subset of a serialised session
Persisted(d) ==
    [queue |-> d.queue, current_index |-> d.current_index, shuffle |-> d.shuffle,
     shuffle_order |-> d.shuffle_order, repeat |-> d.repeat, volume |-> d.volume,
     rate |-> d.rate]

\* C19: session serialisation is idempotent on the persisted subset: for
\* every session state s, to_dict(from_dict(to_dict(s))) equals to_dict(s)
\* on queue, current_index, shuffle, shuffle_order, repeat, volume and rate.
C19_SerialisationIdempotent ==
    sess # NoSession =>
        Persisted(to_dict(from_dict(to_dict(sess)))) = Persisted(to_dict(sess))

\* a session restored from its own serialised form, away from the defaults
C19_Witness ==
    /\ sess # NoSession /\ ser # NoDict
    /\ sess = from_dict(ser) /\ ser = to_dict(sess)
    /\ sess.queue # <<>> /\ sess.queue_position = 1
    /\ sess.shuffle /\ sess.shuffle_order = <<1, 0>>
    /\ sess.repeat = "TRACK" /\ sess.volume = 0 /\ sess.rate = 400

\* the exceptions a handler of the model can end with
HandlerErrors == {"FileNotFoundError", "IndexError", "ValueError", "DecodeError",
                  "RecursionError"}

\* C21: if a command handler raises any exception, the dispatcher returns
\* the failure response {id, ok: false, error.message} for that request;
\* the control task does not terminate: whatever a handler did, it is either
\* waiting for a line or about to hand over the response, and every request
\* line it may read next is answered by a response carrying its id.
C21_HandlerErrorsAnswered ==
    /\ ctl \in {"idle", "put", "done"}
    /\ ctl = "put" => resp.kind = "response" /\ resp.id = resp.req
    /\ \A line \in FailingLines :
          LET answers == Dispatch(Cur, files, line)
          IN  /\ \A d \in Handler(Cur, files, line) :
                    d.exc # "" =>
                        /\ d.exc \in HandlerErrors
                        /\ Outcome(d, Response(line, line.id, FALSE, "error", -1, d.exc))
                              \in answers
              /\ \A R \in answers :
                    /\ R.r.kind = "response" /\ R.r.id = line.id
                    /\ ~R.r.ok => R.r.key = "error" /\ R.r.str \in HandlerErrors

\* a request is answered after the handler of play raised the decoder's
\* error, which only the last except clause of _dispatch catches
C21_Witness ==
    /\ Answered("pause") /\ resp.ok
    /\ p_uri \in Corrupt /\ p_samples = "" /\ queue = <<"d.mp3">>

\* C22: after SIGTERM or SIGINT (or a shutdown command) the daemon
\* completes teardown: it is not ended by the signal, and once run has
\* returned the engine is stopped, the control task is not in a handler
\* and none of atk.cmd, atk.resp and daemon.pid exists.
C22_TeardownCompletes ==
    /\ proc[1] # "killed"
    /\ proc[1] = "stopped" =>
          /\ ~p_active /\ ~p_playing /\ p_device = "none"
          /\ pipes = 0 /\ pid_file = 0

\* C23: play <file> and add <uri> with a path that does not exist fail with
\* the FileNotFound failure response (ok: false) and leave the queue,
\* queue_pos and the playback state as they were.
C23_MissingPathRejected ==
    \A uri \in Missing :
        \A line \in {Line("object", "1", c, uri, <<>>, FALSE) : c \in {"play", "add"}} :
            \A R \in Dispatch(Cur, files, line) :
                /\ R.r.kind = "response" /\ ~R.r.ok
                /\ R.r.str = "FileNotFoundError"
                /\ R.d.queue = queue
                /\ R.d.queue_pos = queue_pos
                /\ R.d.state = state

\* the request line of cmd with the string argument s
Request(cmd, s) == Line("object", "1", cmd, s, <<>>, FALSE)

\* uris of the model whose extension is mp3, in either case
RecognisedUris == Good \cup Missing \cup Corrupt \cup Long \cup Empty \cup Hashed \cup Upper

\* C24: every queue entry has a recognised extension (case-insensitive) in
\* every reachable state: add and play <file> with another extension fail
\* with an error response and leave queue and shuffle_order unchanged, an
\* upper-case extension is accepted, and load adds only the recognised
\* entries of the playlist.
C24_QueueEntriesRecognised ==
    /\ \A i \in 1..Len(queue) : queue[i] \in RecognisedUris
    /\ \A c \in {"add", "play"} :
          /\ \A u \in Unsupported : \A R \in Dispatch(Cur, files, Request(c, u)) :
                /\ R.r.kind = "response" /\ ~R.r.ok /\ R.r.key = "error"
                /\ R.d.queue = queue /\ R.d.shuffle_order = shuffle_order
          /\ \A u \in Upper : \A R \in Dispatch(Cur, files, Request(c, u)) :
                R.r.ok /\ R.d.queue = Append(queue, u)
    /\ \A R \in Dispatch(Cur, files, Request("load", "p")) :
          /\ R.r.ok
          /\ \A i \in 1..Len(R.d.queue) : R.d.queue[i] \in RecognisedUris
          /\ R.d.queue = SelectSeq(ReadPlaylist(files, FindPlaylist(files)),
                                   LAMBDA l : l \in RecognisedUris)

\* a playlist with an unrecognised entry has been loaded with shuffle on,
\* after a file with an upper-case extension was queued
C24_Witness ==
    /\ Answered("load") /\ resp.ok /\ resp.num = 2
    /\ queue = <<"a.mp3", "x.mp3">>
    /\ shuffle /\ Len(shuffle_order) = 2
    /\ p_uri \in Upper

\* a posted _handle_track_end is about to run
TrackEndDue == ctl = "idle" /\ pending_ends > 0

\* queue_pos names a track of the queue
HasCurrent == 0 <= queue_pos /\ queue_pos < Len(queue)

\* next and prev with repeat = track do what they do with repeat = none
NextPrevAsWithNone ==
    repeat = "track" =>
        LET N == [Cur EXCEPT !.repeat = "none"]
        IN  /\ CmdNext(Cur) = {[d EXCEPT !.repeat = "track"] : d \in CmdNext(N)}
            /\ CmdPrev(Cur) = {[d EXCEPT !.repeat = "track"] : d \in CmdPrev(N)}

AtLastLinearRepeatQueue ==
    ~shuffle /\ repeat = "queue" /\ queue # <<>> /\ queue_pos = Len(queue) - 1

\* the track-end task d played index 0: track_changed carries position 0,
\* the state is playing and queue_finished was not emitted
WrappedToFirst(d) ==
    /\ d.exc = ""
    /\ d.queue_pos = 0
    /\ EnginePlays(d, queue[1])
    /\ d.state = "playing"
    /\ \E k \in EventsNamed(d.out, "track_changed") :
          d.out[k].queue_position = 0 /\ d.out[k].track = queue[1]
    /\ EventsNamed(d.out, "queue_finished") = {}

NothingToAdvanceTo == queue = <<>> \/ (AtEndOfOrder /\ repeat = "none")

\* C27: on a natural track-end with repeat # track where advance fails
\* (last track in play order with repeat=none, or empty queue), state
\* becomes stopped, queue_pos is unchanged, exactly one queue_finished
\* event is emitted and no track_changed or playback_started event.
C27_QueueFinished ==
    (TrackEndDue /\ repeat # "track" /\ NothingToAdvanceTo) =>
        /\ HandleTrackEnd(Cur) # {}
        /\ \A d \in HandleTrackEnd(Cur) :
              /\ d.exc = ""
              /\ d.state = "stopped"
              /\ d.queue_pos = queue_pos
              /\ Cardinality(EventsNamed(d.out, "queue_finished")) = 1
              /\ EventsNamed(d.out, "track_changed") = {}
              /\ EventsNamed(d.out, "playback_started") = {}

\* the last track in shuffle order, which is not the last of the queue, has
\* ended with repeat=none and the track-end task has finished the queue
C27_Witness ==
    /\ ctl = "done" /\ resp.kind = "task" /\ resp.ok
    /\ repeat = "none" /\ shuffle
    /\ Len(queue) = 2 /\ queue_pos = 0 /\ shuffle_order = <<1, 0>>
    /\ state = "stopped"
    /\ Len(emitted) = 1 /\ emitted[1].event = "queue_finished"

\* the request line move {from: i, to: j}
MoveRequest(i, j) == Line("object", "1", "move", "", <<i, j>>, FALSE)

\* s is a rearrangement of t: every track occurs as often in s as in t
Rearranged(s, t) ==
    /\ Len(s) = Len(t)
    /\ \A u \in {t[k] : k \in 1..Len(t)} \cup {s[k] : k \in 1..Len(s)} :
          Cardinality({k \in 1..Len(s) : s[k] = u})
              = Cardinality({k \in 1..Len(t) : t[k] = u})

\* C28: for valid indices i and j, move(i, j) leaves the queue a
\* rearrangement of its previous contents with the moved track at index j
\* and all other tracks in their previous relative order, and
\* queue[queue_pos] is the same track before and after; for an out-of-range
\* i or j the command fails and queue, queue_pos and shuffle_order are
\* unchanged.
C28_MoveKeepsCurrentTrack ==
    \A i, j \in -1..MoveQueue :
        \A R \in Dispatch(Cur, files, MoveRequest(i, j)) :
            IF i \in 0..(Len(queue) - 1) /\ j \in 0..(Len(queue) - 1)
            THEN /\ R.r.kind = "response" /\ R.r.ok
                 /\ Rearranged(R.d.queue, queue)
                 /\ R.d.queue[j + 1] = queue[i + 1]
                 /\ RemoveAt(R.d.queue, j) = RemoveAt(queue, i)
                 /\ HasCurrent =>
                       /\ 0 <= R.d.queue_pos /\ R.d.queue_pos < Len(queue)
                       /\ R.d.queue[R.d.queue_pos + 1] = queue[queue_pos + 1]
            ELSE /\ R.r.kind = "response" /\ ~R.r.ok
                 /\ R.d.queue = queue
                 /\ R.d.queue_pos = queue_pos
                 /\ R.d.shuffle_order = shuffle_order

\* the last of three different tracks has been moved to the front while
\* the middle one was current: the current track is now at index 2
C28_Witness ==
    /\ Answered("move") /\ resp.ok /\ resp.num = 2
    /\ queue = <<"U.MP3", "a.mp3", "b.mp3">>
    /\ queue_pos = 2 /\ p_uri = "b.mp3"
    /\ shuffle

\* the positions of shuffle_order that come after the current index, the
\* end alone when the current index is not in it
AfterCurrent ==
    IF IndexOf(shuffle_order, queue_pos) = -1 THEN {Len(shuffle_order)}
    ELSE (IndexOf(shuffle_order, queue_pos) + 1)..Len(shuffle_order)

\* C29: when shuffle is on, add appends the track to the queue and inserts
\* its index into shuffle_order at a position strictly after the current
\* track's position (at the end if the current index is not in
\* shuffle_order): the existing shuffle entries keep their relative order
\* and the added index is met after the current one in play order.
C29_ShuffleAddAfterCurrent ==
    (shuffle /\ Len(queue) < MoveQueue) =>
        \A u \in {"a.mp3"} \cup Upper :
            LET Added == Dispatch(Cur, files, Request("add", u))
                new   == Len(queue)
            IN  /\ Added # {}
                /\ \A R \in Added :
                      /\ R.r.kind = "response" /\ R.r.ok
                      /\ R.d.queue = Append(queue, u)
                      /\ R.d.queue_pos = queue_pos
                      /\ \E pos \in AfterCurrent :
                            /\ R.d.shuffle_order[pos + 1] = new
                            /\ RemoveAt(R.d.shuffle_order, pos) = shuffle_order
                      /\ Cardinality({k \in 1..Len(R.d.shuffle_order) :
                                         R.d.shuffle_order[k] = new}) = 1
                      /\ IndexOf(shuffle_order, queue_pos) # -1 =>
                            IndexOf(R.d.shuffle_order, new)
                                > IndexOf(R.d.shuffle_order, queue_pos)
                \* every position after the current one can be drawn
                /\ \A pos \in AfterCurrent : \E R \in Added :
                      R.d.shuffle_order = InsertAt(shuffle_order, pos, new)

\* with shuffle on, a third track has been added and its index went
\* between the current index and the one that follows it in shuffle_order
C29_Witness ==
    /\ Answered("add") /\ resp.ok /\ resp.num = 3
    /\ shuffle /\ Len(queue) = 3
    /\ Len(shuffle_order) = 3
    /\ shuffle_order[1] = queue_pos /\ shuffle_order[2] = 2

\* shuffle is on and the current index is not in shuffle_order
Drift == shuffle /\ IndexOf(shuffle_order, queue_pos) = -1

\* the linear policy on a queue that is not empty: one index further or
\* back, wrapping when repeat is queue and failing at the ends otherwise
LinearNext ==
    IF queue_pos + 1 < Len(queue) THEN Step(TRUE, [Cur EXCEPT !.queue_pos = queue_pos + 1])
    ELSE IF repeat = "queue" THEN Step(TRUE, [Cur EXCEPT !.queue_pos = 0])
    ELSE Step(FALSE, Cur)

LinearPrev ==
    IF queue_pos - 1 >= 0 THEN Step(TRUE, [Cur EXCEPT !.queue_pos = queue_pos - 1])
    ELSE IF repeat = "queue" THEN Step(TRUE, [Cur EXCEPT !.queue_pos = Len(queue) - 1])
    ELSE Step(FALSE, Cur)

\* a step of the session with shuffle off, seen with shuffle on
ShuffleOn(A) == Step(A.ok, [A.d EXCEPT !.shuffle = TRUE])

\* C30: with shuffle on, if queue_pos is not present in shuffle_order,
\* advance and previous behave exactly like the linear policy (queue_pos + 1
\* or - 1, wrapping only when repeat=queue, failing at the ends otherwise),
\* as they do with shuffle off, and next and prev are answered without an
\* error being raised.
C30_DriftFallsBackToLinear ==
    Drift =>
        LET L == [Cur EXCEPT !.shuffle = FALSE]
        IN  /\ Advance(Cur) = {ShuffleOn(A) : A \in Advance(L)}
            /\ GoPrevious(Cur) = ShuffleOn(GoPrevious(L))
            /\ queue # <<>> => /\ Advance(Cur) = {LinearNext}
                               /\ GoPrevious(Cur) = LinearPrev
            /\ \A c \in {"next", "prev"} :
                  \A R \in Dispatch(Cur, files, Request(c, "")) :
                      R.r.kind = "response" /\ R.r.ok /\ R.d.exc = ""

\* prev has moved the session from index 2, past the end of a queue of two
\* tracks and absent from shuffle_order, to index 1; with repeat=none the
\* shuffle order <<0, 1>> leads to index 1 from nowhere
C30_Witness ==
    /\ Answered("prev") /\ resp.ok /\ resp.key = "queue_position" /\ resp.num = 1
    /\ shuffle /\ shuffle_order = <<0, 1>> /\ repeat = "none"
    /\ Len(queue) = 2 /\ queue_pos = 1

\* the request line jump {index: i}
JumpRequest(i) == Line("object", "1", "jump", "", <<i>>, FALSE)

\* jump with an index outside the queue fails and changes nothing
JumpOutsideFails ==
    \A i \in {-1} \cup (Len(queue)..MaxQueue) :
        \A R \in Dispatch(Cur, files, JumpRequest(i)) :
            /\ R.r.kind = "response" /\ ~R.r.ok /\ R.r.key = "error"
            /\ R.r.str = "IndexError"
            /\ R.d.queue_pos = queue_pos /\ R.d.state = state
            /\ R.d.out = <<>>
            /\ <<R.d.p_uri, R.d.p_samples, R.d.p_position, R.d.p_active,
                 R.d.p_playing, R.d.p_device>>
               = <<p_uri, p_samples, p_position, p_active, p_playing, p_device>>

\* the outcome R of jump(i): queue[i] plays from its start
JumpedTo(R, i) ==
    /\ R.r.kind = "response" /\ R.r.ok
    /\ R.r.key = "queue_position" /\ R.r.num = i
    /\ R.d.queue_pos = i
    /\ R.d.state = "playing"
    /\ EnginePlays(R.d, queue[i + 1]) /\ R.d.p_position = 0

\* C31 as stated: jump(i) with 0 <= i < len(queue) sets queue_pos to i and
\* (re)starts playback of queue[i], returning queue_position = i with state
\* playing; jump with any other index fails with an invalid-index error
\* response and leaves queue_pos, playback state and the engine unchanged.
C31_JumpPlaysIndex ==
    /\ \A i \in QueueIndices :
          \A R \in Dispatch(Cur, files, JumpRequest(i)) : JumpedTo(R, i)
    /\ JumpOutsideFails

\* C31 as amended: queue[i] is played when its file can be loaded.
C31_JumpPlaysIndexLoadable ==
    /\ \A i \in QueueIndices :
          queue[i + 1] \in Good =>
              /\ Dispatch(Cur, files, JumpRequest(i)) # {}
              /\ \A R \in Dispatch(Cur, files, JumpRequest(i)) : JumpedTo(R, i)
    /\ JumpOutsideFails

\* jump 1 has been answered while index 0 was playing: the second track
\* plays from its start
C31_Witness ==
    /\ Answered("jump") /\ resp.ok /\ resp.key = "queue_position" /\ resp.num = 1
    /\ Len(queue) = 2 /\ queue[1] # queue[2] /\ queue_pos = 1
    /\ state = "playing" /\ p_uri = queue[2] /\ p_playing /\ p_position = 0
    /\ Len(emitted) = 2 /\ emitted[1].queue_position = 1

\* thread t is at a read or a write of one of the guarded fields
Accesses(s) == s.a \in {"rd", "wr"}

\* the two threads are at statements that access the same field, one of
\* them writing it
AccessConcurrently ==
    /\ cth # Outside /\ Accesses(ControlAt) /\ Accesses(AudioAt)
    /\ ControlAt.f = AudioAt.f
    /\ ControlAt.a = "wr" \/ AudioAt.a = "wr"

\* C32: every read and every write of the cursor, of the active and playing
\* flags and of the buffer reference, by a transport operation on the
\* control thread or by the audio callback, happens while the engine mutex
\* is held by the accessing thread, so no two threads access these fields
\* concurrently.
C32_FieldsGuardedByMutex ==
    /\ (cth # Outside /\ Accesses(ControlAt)) => mutex = "control"
    /\ Accesses(AudioAt) => mutex = "audio"
    /\ ~AccessConcurrently

\* the tasks that are inside a handler: entered and not yet returned
InHandler == {t \in {"read", "end"} : loop[t] = "in"}

\* C33: command handlers and the track-end handler run strictly one at a
\* time on the control task: at most one handler has been entered and not
\* yet returned, and the loop stays with it until it returns; the steps of
\* the audio thread (and every other step outside a handler) leave queue,
\* queue_pos, shuffle_order and state as they are, the end-callback only
\* posting the track-end task.
C33_HandlersOneAtATime ==
    /\ [](/\ Cardinality(InHandler) <= 1
          /\ \A t \in InHandler : loop.running = t)
    /\ [][(loop.running = "" /\ loop'.running = "")
            => UNCHANGED <<queue, queue_pos, shuffle_order, state>>]_vars

\* a track-end task is posted and waits while the handler of a command is
\* between two awaits of _emit, with the response queue full
C33_Witness ==
    /\ loop.running = "read" /\ loop.read = "in"
    /\ Len(loop.rev) >= 1
    /\ pending_ends > 0
    /\ Full(resp_queue)

\* C34: a line whose write to the response pipe fails is dropped without
\* being retried: whether the write succeeds or fails, the write loop is
\* back at its get with the queue as it was, and the line it takes next is
\* the oldest one queued; a failed write does not end the write loop.
C34_FailedWriteDropsLine ==
    /\ [][(wr # NoLine /\ wr' # wr)
            => /\ wr' = NoLine
               /\ resp_queue' = resp_queue /\ held' = held]_vars
    /\ [][(wr = NoLine /\ wr' # NoLine)
            => /\ resp_queue # <<>>
               /\ wr' = Head(resp_queue) /\ resp_queue' = Tail(resp_queue)]_vars

\* the write of the first response has failed (it was taken and nothing
\* has been written) and the write loop is at its get with lines queued
C34_Witness ==
    /\ wr = NoLine
    /\ taken = 1 /\ last_written = 0
    /\ resp_queue # <<>>

\* the runs of n successive next commands from D: D followed by the
\* session after each of them
RECURSIVE NextRuns(_, _)
NextRuns(D, n) ==
    IF n = 0 THEN {<<D>>}
    ELSE UNION {{Append(run, d) : d \in CmdNext(run[Len(run)])}
                : run \in NextRuns(D, n - 1)}

\* from the session S that shuffle-enable left on a queue of N tracks, N - 1
\* next commands succeed and visit every other track once, and the N-th is
\* answered "End of queue"
Tour(S) ==
    LET N == Len(queue)
    IN  /\ S.shuffle_order[1] = queue_pos
        /\ \A run \in NextRuns(S, N) :
              /\ \A k \in 2..N : run[k].exc = "" /\ run[k].ret.key = "queue_position"
              /\ \A i \in QueueIndices \ {queue_pos} :
                    Cardinality({k \in 2..N : run[k].queue_pos = i}) = 1
              /\ run[N + 1].ret.key = "error" /\ run[N + 1].ret.str = "End of queue"

C36_EngineHoldsCurrentTrack ==
    state \in {"playing", "paused"} => (HasCurrent /\ p_samples = queue[queue_pos + 1])

\* C37: a command that is answered with a failure response (ok: false)
\* leaves the session state unchanged: queue, queue_pos, shuffle,
\* shuffle_order, repeat, volume, rate and playback state are the same after
\* the command as before it.
C37_FailureLeavesSession ==
    [][(ctl = "idle" /\ ctl' = "put" /\ resp'.kind = "response" /\ ~resp'.ok)
        => UNCHANGED <<queue, queue_pos, shuffle, shuffle_order, repeat, volume,
                       rate, state>>]_vars

\* a posted track-end task is waiting although a command has been handled
\* since the device detected the end: the session has been stopped, or the
\* engine, which the detection left idle, is playing again
StaleTrackEnd == TrackEndDue /\ (state = "stopped" \/ (p_playing /\ p_active))

\* C38: a natural end of track is acted on only for the track that ended:
\* when a command (next, prev, jump, play <file>, stop, clear, remove) has
\* been handled between the detection of the end and the posted track-end
\* task, the task neither advances the queue nor restarts playback.
C38_StaleTrackEndIgnored ==
    StaleTrackEnd =>
        \A d \in HandleTrackEnd(Cur) :
            /\ d.queue_pos = queue_pos
            /\ d.state = state
            /\ d.p_playing = p_playing
            /\ d.p_samples = p_samples
            /\ d.p_position = p_position

\* the positions of the queue_updated events among the events evs
QueueUpdates(evs) == {k \in 1..Len(evs) : evs[k].event = "queue_updated"}

\* the last queue_updated event of evs carries the queue q and the index pos
LastUpdateShows(evs, q, pos) ==
    /\ QueueUpdates(evs) # {}
    /\ LET k == CHOOSE m \in QueueUpdates(evs) : \A n \in QueueUpdates(evs) : n <= m
       IN  evs[k].queue = q /\ evs[k].queue_position = pos

\* C39: every command that changes the contents of the queue (add,
\* play <file>, remove, move, clear, load) emits a queue_updated event whose
\* payload is the queue and the current index as they are when the command
\* returns.
C39_QueueUpdatedShowsQueue ==
    [][(/\ ctl = "idle" /\ ctl' = "put"
        /\ resp'.kind = "response" /\ resp'.ok
        /\ resp'.cmd \in {"add", "play", "remove", "move", "clear", "load"}
        /\ queue' # queue)
        => LastUpdateShows(emitted', queue', queue_pos')]_vars

\* the number of event lines waiting in the queue q
EventLines(q) == Cardinality({k \in 1..Len(q) : q[k].type = "event"})

\* C40: no event line is enqueued for the response pipe while the
\* has-subscribers flag is false, and once subscribe has been handled the
\* flag stays true.
C40_EventsOnlyForSubscribers ==
    /\ [][EventLines(resp_queue') > EventLines(resp_queue) => has_subscribers']_vars
    /\ [][has_subscribers => has_subscribers']_vars

====
